---------------------------- MODULE Spec2Model ----------------------------
(***************************************************************************)
(* Model of the Condfind backend core: the tiered listing-retrieval        *)
(* pipeline (scrapers.py), the validation/repair pass and the              *)
(* trigger/confirmation evaluator (validators.py), the confirmation        *)
(* message builder (utils.py) and the extraction orchestrator              *)
(* (extractors.py).                                                        *)
(*                                                                         *)
(* Python strings are sequences of one-character strings, so that          *)
(* lower(), strip(), substring tests and the regular expressions are       *)
(* computed as the code computes them.  A newline is the element "LF".     *)
(* An Optional value is <<>> (None) or <<v>>.                              *)
(***************************************************************************)
EXTENDS Integers, Sequences, FiniteSets, TLC

VARIABLES
    \* ---- scrape_airbnb_listings (scrapers.py) ----
    pc,            \* position of the current call of scrape_airbnb_listings
    search_url,    \* its argument search_url
    max_listings,  \* its argument max_listings
    results,       \* the list it returned (<<>> while running)
    elapsed_time,  \* seconds since start_time when the fast tier has ended
    clock,         \* seconds since start_time now: time.time() - start_time
    driver_cache,  \* module global _driver_cache: 0 (None) or a session id
    sessions,      \* state of every rendering session: "none", "live", "quit",
                   \* or "quit_failed" when quit() was called on it and raised
    driver,        \* local variable driver of scrape_airbnb_listings_selenium
    pending,       \* what scrape_airbnb_listings_selenium is about to return
    escaped,       \* TRUE iff an exception left scrape_airbnb_listings
    fast_res,      \* what scrape_airbnb_listings_requests returned in this call
    errors,        \* the exceptions raised inside the tiers during this call
    \* ---- validate_and_fix_params (validators.py) ----
    v_pc,          \* "ready" before the call, "done" after it
    v_in,          \* the SearchParams passed in
    v_text,        \* the argument conversation_text
    v_out,         \* the SearchParams returned
    \* ---- should_trigger_search / should_show_confirmation ----
    e_pc,          \* "ready" before a turn is evaluated, "done" after it
    message,       \* the latest user message
    params,        \* the SearchParams given to the evaluator
    history,       \* conversation_history: the turns before the message
    action,        \* the action of the latest turn
    prev_action,   \* the action of the turn before it
    turns,         \* number of turns evaluated
    \* ---- extract_search_params (extractors.py) ----
    x_pc,              \* "regex", "llm" or "done"; "idle" when not called
    conversation_text, \* the argument conversation_text
    x_params,          \* local variable params of extract_search_params
    llm_response,      \* what the completion call did, kind "none" if not called
    llm_params,        \* what extract_search_params_with_llm returned
    x_raised,          \* TRUE iff an exception left extract_search_params
    \* ---- the field matchers of the deterministic pass ----
    m_pc,              \* "ready", or the matcher that has run; "idle" when not called
    m_text,            \* the text given to the matcher
    m_today,           \* the day of datetime.now()
    m_out,             \* what the matcher returned, and the locals it left
    \* ---- concurrent calls of scrape_airbnb_listings_selenium ----
    calls          \* for every thread: position, local driver, probed handle

scrape_vars == <<pc, search_url, max_listings, results, elapsed_time, clock,
                 driver_cache, sessions, driver, pending, escaped, fast_res,
                 errors>>
validate_vars == <<v_pc, v_in, v_text, v_out>>
eval_vars == <<e_pc, message, params, history, action, prev_action, turns>>
match_vars == <<m_pc, m_text, m_today, m_out>>
extract_vars == <<x_pc, conversation_text, x_params, llm_response, llm_params,
                  x_raised, match_vars>>
vars == <<scrape_vars, validate_vars, eval_vars, extract_vars, calls>>

-----------------------------------------------------------------------------
(* Bounds of the model *)

MaxMaxListings == 3     \* max_listings ranges over 1..MaxMaxListings
MaxSessions == 3        \* rendering sessions that can be created in a run
MaxHistory == 3         \* turns of a conversation_history given to the evaluator
MaxTurns == 3           \* user turns of a modelled conversation
MaxThreads == 2         \* concurrent calls of the rendered tier

-----------------------------------------------------------------------------
(* Python string primitives *)

None == <<>>
Some(v) == <<v>>

UpperChars == <<"A","B","C","D","E","F","G","H","I","J","K","L","M",
                "N","O","P","Q","R","S","T","U","V","W","X","Y","Z">>
LowerChars == <<"a","b","c","d","e","f","g","h","i","j","k","l","m",
                "n","o","p","q","r","s","t","u","v","w","x","y","z">>
DigitChars == <<"0","1","2","3","4","5","6","7","8","9">>

Range(f) == {f[i] : i \in DOMAIN f}

UpperSet == Range(UpperChars)
LowerSet == Range(LowerChars)
DigitSet == Range(DigitChars)

IsUpper(c) == c \in UpperSet
IsLower(c) == c \in LowerSet
IsAlpha(c) == IsUpper(c) \/ IsLower(c)
IsDigit(c) == c \in DigitSet
IsSpace(c) == c \in {" ", "LF", "TAB"}

LowerChar(c) ==
    IF IsUpper(c)
    THEN LowerChars[CHOOSE i \in 1..26 : UpperChars[i] = c]
    ELSE c
UpperChar(c) ==
    IF IsLower(c)
    THEN UpperChars[CHOOSE i \in 1..26 : LowerChars[i] = c]
    ELSE c

\* str.lower()
Lower(s) == [i \in 1..Len(s) |-> LowerChar(s[i])]

\* str.title(): a letter is upper-cased after a non-letter, lower-cased otherwise
Title(s) ==
    [i \in 1..Len(s) |->
        IF i = 1 \/ ~IsAlpha(s[i-1]) THEN UpperChar(s[i]) ELSE LowerChar(s[i])]

\* str.strip()
Strip(s) ==
    LET keep == {i \in 1..Len(s) : ~IsSpace(s[i])}
    IN  IF keep = {} THEN <<>>
        ELSE LET lo == CHOOSE i \in keep : \A j \in keep : i <= j
                 hi == CHOOSE i \in keep : \A j \in keep : j <= i
             IN  SubSeq(s, lo, hi)

\* s[i:i+len(p)] == p
MatchAt(s, i, p) ==
    /\ i >= 1
    /\ i + Len(p) - 1 <= Len(s)
    /\ SubSeq(s, i, i + Len(p) - 1) = p

\* p in s
Contains(s, p) == \E i \in 1..(Len(s) - Len(p) + 1) : MatchAt(s, i, p)

\* s.find(p) + 1, 0 when p is not in s
IndexOf(s, p) ==
    IF Contains(s, p)
    THEN CHOOSE i \in 1..(Len(s) - Len(p) + 1) :
            /\ MatchAt(s, i, p)
            /\ \A j \in 1..(i-1) : ~MatchAt(s, j, p)
    ELSE 0

\* str.replace(a, b) for single characters
ReplaceChar(s, a, b) == [i \in 1..Len(s) |-> IF s[i] = a THEN b ELSE s[i]]

\* str(n) for an integer
RECURSIVE NatToStr(_)
NatToStr(n) ==
    IF n < 10 THEN <<DigitChars[n + 1]>>
    ELSE NatToStr(n \div 10) \o <<DigitChars[(n % 10) + 1]>>
IntToStr(n) == IF n < 0 THEN <<"-">> \o NatToStr(-n) ELSE NatToStr(n)

\* [x for x in seq[:n]]
Take(seq, n) == SubSeq(seq, 1, IF n < Len(seq) THEN n ELSE Len(seq))

-----------------------------------------------------------------------------
(* scrapers.py: the retrieval pipeline *)

max_total_time == 15

\* What a listing element of the fetched page yields
PageTitle == <<"C","o","z","y"," ","l","o","f","t">>
PagePrice == <<"$","1","2","0">>
PageRating == <<"4",".","8">>
PageLink == <<"h","t","t","p","s",":","/","/","w","w","w",".","a","i","r","b","n","b",".","c","o","m","/","r","o","o","m","s","/","1">>

SearchUrls ==
    { <<"h","t","t","p","s",":","/","/","w","w","w",".","a","i","r","b","n","b",".","c","o","m","/","s","/","n","e","w","-","y","o","r","k","/","h","o","m","e","s","?","c","u","r","r","e","n","c","y","=","U","S","D">>,
      <<"h","t","t","p","s",":","/","/","w","w","w",".","a","i","r","b","n","b",".","c","o","m","/","s","/","h","o","m","e","s">>,
      <<"h","t","t","p","s",":","/","/","e","x","a","m","p","l","e",".","c","o","m","/","r","o","o","m","s">> }

\* An element of the page: "full" has title, price, rating and link,
\* "bare" has none of them, "bad" raises while it is read, "ui" is
\* search-interface chrome.
FastPages ==
    { [error |-> TRUE,  selectors |-> << <<>>, <<>>, <<>>, <<>> >>],
      [error |-> FALSE, selectors |-> << <<>>, <<>>, <<>>, <<>> >>],
      [error |-> FALSE, selectors |-> << <<"bad">>, <<>>, <<>>, <<>> >>],
      [error |-> FALSE, selectors |-> << <<"bad", "bad">>, <<"full">>, <<>>, <<>> >>],
      [error |-> FALSE, selectors |-> << <<"full", "bare", "bad", "full", "full">>, <<>>, <<>>, <<>> >>],
      [error |-> FALSE, selectors |-> << <<>>, <<>>, <<>>, <<"bare", "full">> >>] }

FastDurations == {1, 5, 15, 16}

\* the dict built at lines 456-462
FastRecord(kind, j) ==
    IF kind = "full"
    THEN [title |-> PageTitle, price |-> PagePrice, rating |-> PageRating,
          link |-> PageLink, source |-> <<"a","i","r","b","n","b","_","r","e","q","u","e","s","t","s">>]
    ELSE [title |-> PageTitle, price |-> <<"P","r","i","c","e"," ","a","v","a","i","l","a","b","l","e"," ","o","n"," ","s","i","t","e">>,
          rating |-> <<"R","a","t","i","n","g"," ","n","o","t"," ","a","v","a","i","l","a","b","l","e">>, link |-> <<>>,
          source |-> <<"a","i","r","b","n","b","_","r","e","q","u","e","s","t","s">>]

\* the loop over elements[:max_listings], lines 430-465
RECURSIVE FastElements(_, _)
FastElements(elements, j) ==
    IF elements = <<>> THEN <<>>
    ELSE IF Head(elements) = "bad"
         THEN FastElements(Tail(elements), j + 1)
         ELSE <<FastRecord(Head(elements), j)>> \o FastElements(Tail(elements), j + 1)

\* the loop over potential_selectors, lines 426-469
RECURSIVE FastSelectors(_, _)
FastSelectors(selectors, max) ==
    IF selectors = <<>> THEN <<>>
    ELSE LET listings == FastElements(Take(Head(selectors), max), 0)
         IN  IF listings # <<>> THEN listings
             ELSE FastSelectors(Tail(selectors), max)

\* Mutant: the fast tier without the cap of max_listings
scrape_requests_uncapped(page, max) ==
    IF page.error THEN <<>>
    ELSE FastSelectors(page.selectors, max + 2)

scrape_airbnb_listings_requests(page, max) ==
    IF page.error THEN <<>>
    ELSE Take(FastSelectors(page.selectors, max), max)

\* the list returned at lines 368-376 and 382-390
SeleniumPlaceholder(url) ==
    << [title |-> <<"P","r","o","p","e","r","t","i","e","s"," ","a","v","a","i","l","a","b","l","e"," ","o","n"," ","A","i","r","b","n","b">>,
        price |-> <<"V","i","s","i","t"," ","s","i","t","e"," ","f","o","r"," ","c","u","r","r","e","n","t"," ","p","r","i","c","i","n","g">>,
        rating |-> <<"S","e","e"," ","r","e","v","i","e","w","s"," ","o","n"," ","A","i","r","b","n","b">>,
        link |-> url,
        source |-> <<"a","i","r","b","n","b","_","r","e","d","i","r","e","c","t">>] >>

\* Mutant: the degraded record links to the site's front page
fallback_links_home(url) ==
    << [title |-> <<"P","r","o","p","e","r","t","i","e","s"," ","a","v","a","i","l","a","b","l","e"," ","i","n"," ","y","o","u","r"," ","l","o","c","a","t","i","o","n">>,
        price |-> <<"V","i","s","i","t"," ","A","i","r","b","n","b"," ","f","o","r"," ","c","u","r","r","e","n","t"," ","p","r","i","c","i","n","g">>,
        rating |-> <<"S","e","e"," ","a","c","t","u","a","l"," ","r","e","v","i","e","w","s"," ","o","n"," ","s","i","t","e">>,
        link |-> <<"h","t","t","p","s",":","/","/","w","w","w",".","a","i","r","b","n","b",".","c","o","m">>,
        source |-> <<"a","i","r","b","n","b","_","r","e","d","i","r","e","c","t">>] >>

generate_fallback_results(url) ==
    LET at == IndexOf(url, <<"/","s","/">>)
        rest == SubSeq(url, at + 3, Len(url))
        slash == IndexOf(rest, <<"/">>)
        first == IF slash = 0 THEN rest ELSE SubSeq(rest, 1, slash - 1)
        location == IF at = 0 THEN <<"y","o","u","r"," ","l","o","c","a","t","i","o","n">>
                    ELSE Title(ReplaceChar(first, "-", " "))
    IN  << [title |-> <<"P","r","o","p","e","r","t","i","e","s"," ","a","v","a","i","l","a","b","l","e"," ","i","n"," ">> \o location,
            price |-> <<"V","i","s","i","t"," ","A","i","r","b","n","b"," ","f","o","r"," ","c","u","r","r","e","n","t"," ","p","r","i","c","i","n","g">>,
            rating |-> <<"S","e","e"," ","a","c","t","u","a","l"," ","r","e","v","i","e","w","s"," ","o","n"," ","s","i","t","e">>,
            link |-> url,
            source |-> <<"a","i","r","b","n","b","_","r","e","d","i","r","e","c","t">>] >>

\* The rendered page: find_elements either raises or finds elements
Found(elements) == [error |-> FALSE, elements |-> elements]
FindFails == [error |-> TRUE, elements |-> <<>>]

SeleniumDoms ==
    { << Found(<<>>), Found(<<>>), Found(<<>>), Found(<<>>), Found(<<>>), Found(<<>>) >>,
      << FindFails, FindFails, FindFails, FindFails, FindFails, FindFails >>,
      << Found(<<"ui", "bad">>), Found(<<>>), Found(<<>>), Found(<<>>), Found(<<>>), Found(<<>>) >>,
      << Found(<<"ui", "full", "bad", "bare", "full", "full">>), Found(<<>>), Found(<<>>),
         Found(<<>>), Found(<<>>), Found(<<>>) >>,
      << FindFails, Found(<<"ui">>), Found(<<"bare">>), Found(<<"full">>), Found(<<>>), Found(<<>>) >> }

\* the dict built at lines 181-342
SeleniumRecord(kind, listing_count, url) ==
    IF kind = "full"
    THEN [title |-> PageTitle, price |-> PagePrice, rating |-> PageRating,
          link |-> PageLink, source |-> <<"a","i","r","b","n","b","_","s","e","l","e","n","i","u","m">>]
    ELSE [title |-> <<"P","r","o","p","e","r","t","y"," ","L","i","s","t","i","n","g"," ">> \o IntToStr(listing_count + 1),
          price |-> <<"P","r","i","c","e"," ","a","v","a","i","l","a","b","l","e"," ","o","n"," ","s","i","t","e">>,
          rating |-> <<"R","a","t","i","n","g"," ","n","o","t"," ","a","v","a","i","l","a","b","l","e">>, link |-> url,
          source |-> <<"a","i","r","b","n","b","_","s","e","l","e","n","i","u","m">>]

\* the loop over elements, lines 161-350
RECURSIVE SeleniumElements(_, _, _, _)
SeleniumElements(elements, listing_count, max, url) ==
    IF elements = <<>> \/ listing_count >= max THEN <<>>
    ELSE IF Head(elements) \in {"ui", "bad"}
         THEN SeleniumElements(Tail(elements), listing_count, max, url)
         ELSE <<SeleniumRecord(Head(elements), listing_count, url)>>
              \o SeleniumElements(Tail(elements), listing_count + 1, max, url)

\* the loop over selectors_to_try, lines 154-358
RECURSIVE SeleniumSelectors(_, _, _)
SeleniumSelectors(selectors, max, url) ==
    IF selectors = <<>> THEN <<>>
    ELSE IF Head(selectors).error
         THEN SeleniumSelectors(Tail(selectors), max, url)
         ELSE LET listings == SeleniumElements(Head(selectors).elements, 0, max, url)
              IN  IF listings # <<>> THEN listings
                  ELSE SeleniumSelectors(Tail(selectors), max, url)

Returned(val) == [exc |-> FALSE, val |-> val]
Raised == [exc |-> TRUE, val |-> <<>>]

\* lines 488-491: the fast tier's records are returned when there are any
FastTierAccepted(res) == res # <<>> /\ Len(res) > 0

\* Mutant: the time budget is never looked at
BudgetNeverExhausted(elapsed) == FALSE

\* lines 496-497
BudgetExhausted(elapsed) == elapsed > max_total_time

\* Mutant: the rendered tier is called outside any try block
AfterSeleniumNoTry(p, url) ==
    IF p.exc
    THEN [escaped |-> TRUE, results |-> <<>>]
    ELSE IF /\ p.val # <<>>
            /\ \E i \in 1..Len(p.val) : Contains(p.val[i].source, <<"s","e","l","e","n","i","u","m">>)
         THEN [escaped |-> FALSE, results |-> p.val]
         ELSE [escaped |-> FALSE, results |-> generate_fallback_results(url)]

\* lines 503-512: what scrape_airbnb_listings does with the rendered tier's
\* outcome; an exception is caught and the degraded record is returned
AfterSelenium(p, url) ==
    IF /\ ~p.exc
       /\ p.val # <<>>
       /\ \E i \in 1..Len(p.val) : Contains(p.val[i].source, <<"s","e","l","e","n","i","u","m">>)
    THEN [escaped |-> FALSE, results |-> p.val]
    ELSE [escaped |-> FALSE, results |-> generate_fallback_results(url)]

FreeSessions == {s \in 1..MaxSessions : sessions[s] = "none"}

\* Mutant: the probe answers on a session that was quit
ProbeAnswersAfterQuit(probe_ok) == probe_ok

\* Mutant: the cached handle is trusted without a probe
ProbeSkipped(probe_ok) == TRUE

\* lines 90-92: _driver_cache.current_url answers.  It raises on a session
\* that was quit; after a quit() that raised the browser may be there or not.
ProbeSucceeds(probe_ok) ==
    sessions[driver_cache] \in {"live", "quit_failed"} /\ probe_ok

\* Mutant: the finally clause leaves the session open
SessionLeftOpen(quit_ok) == "live"

\* lines 393-394: the session after driver.quit()
SessionAfterQuit(quit_ok) == IF quit_ok THEN "quit" ELSE "quit_failed"

-----------------------------------------------------------------------------
(* Regular-expression primitives, all matched on the lower-cased text      *)
(* (re.IGNORECASE)                                                         *)

\* the character at i, "EOF" past the end
At(s, i) == IF i >= 1 /\ i <= Len(s) THEN s[i] ELSE "EOF"

\* the position after \s* matched from i
SpacesEnd(s, i) ==
    CHOOSE j \in i..(Len(s) + 1) :
        /\ ~IsSpace(At(s, j))
        /\ \A k \in i..(j-1) : IsSpace(s[k])

\* the position after \d* matched from i
DigitsEnd(s, i) ==
    CHOOSE j \in i..(Len(s) + 1) :
        /\ ~IsDigit(At(s, j))
        /\ \A k \in i..(j-1) : IsDigit(s[k])

DigitVal(c) == (CHOOSE k \in 1..10 : DigitChars[k] = c) - 1

\* int(s[i:j]) for a run of digits
RECURSIVE ParseNat(_, _, _)
ParseNat(s, i, j) ==
    IF j <= i THEN 0
    ELSE 10 * ParseNat(s, i, j - 1) + DigitVal(s[j-1])

\* (\d+) at i: the number of the digit run that starts at i
NumberAt(s, i) == ParseNat(s, i, DigitsEnd(s, i))

\* the positions where a run of digits starts
RunStarts(s) == {i \in 1..Len(s) : IsDigit(s[i]) /\ ~IsDigit(At(s, i - 1))}

FirstIndex(S) == IF S = {} THEN 0 ELSE CHOOSE i \in S : \A j \in S : i <= j

\* one of the alternatives at i: the position after it, 0 when none matches
AltEnd(s, i, alts) ==
    IF \E a \in alts : MatchAt(s, i, a)
    THEN i + Len(CHOOSE a \in alts : MatchAt(s, i, a))
    ELSE 0

NoMatch == [found |-> FALSE, groups |-> 0, g1 |-> 0, g2 |-> 0, text |-> <<>>]
Match1(s, i, e, n) ==
    [found |-> TRUE, groups |-> 1, g1 |-> n, g2 |-> 0, text |-> SubSeq(s, i, e - 1)]
Match2(s, i, e, n, m) ==
    [found |-> TRUE, groups |-> 2, g1 |-> n, g2 |-> m, text |-> SubSeq(s, i, e - 1)]

-----------------------------------------------------------------------------
(* validators.py: validate_and_fix_params *)

\* a query that carries the location, the guests and the prices only
SearchParams(location, guests, min_price, max_price) ==
    [location |-> location, checkin |-> None, checkout |-> None,
     guests |-> guests, min_price |-> min_price, max_price |-> max_price,
     property_type |-> None, amenities |-> None]

\* truth value of an Optional[int]: None and 0 are false
TruthyInt(o) == o # None /\ o[1] # 0
\* truth value of an Optional[str] or Optional[list]
TruthySeq(o) == o # None /\ o[1] # <<>>

\* line 13: (\d+)\s+(?:people|guests?|person|adults?), every match in order
GuestPattern1(s) ==
    {i \in RunStarts(s) :
        LET a == DigitsEnd(s, i)
            b == SpacesEnd(s, a)
        IN  b > a /\ AltEnd(s, b, {<<"p","e","o","p","l","e">>, <<"g","u","e","s","t">>, <<"p","e","r","s","o","n">>, <<"a","d","u","l","t">>}) # 0}

\* line 14: (?:for|with)\s+(\d+)(?:\s+(?:people|guests|adults)); the set holds
\* the position of the number of every match
GuestPattern2(s) ==
    {c \in RunStarts(s) :
        \E i \in 1..Len(s) :
            LET a == AltEnd(s, i, {<<"f","o","r">>, <<"w","i","t","h">>})
                e == DigitsEnd(s, c)
                f == SpacesEnd(s, e)
            IN  /\ a # 0
                /\ c > a
                /\ c = SpacesEnd(s, a)
                /\ f > e
                /\ AltEnd(s, f, {<<"p","e","o","p","l","e">>, <<"g","u","e","s","t","s">>, <<"a","d","u","l","t","s">>}) # 0}

\* line 15: (\d+)\s+of us
GuestPattern3(s) ==
    {i \in RunStarts(s) :
        LET a == DigitsEnd(s, i)
            b == SpacesEnd(s, a)
        IN  b > a /\ MatchAt(s, b, <<"o","f"," ","u","s">>)}

\* Mutant: any positive number is taken for a guest count
GuestNumPositive(guest_num) == guest_num >= 1

\* line 23
GuestNumReasonable(guest_num) == 1 <= guest_num /\ guest_num <= 16

\* lines 20-25: the first match of one pattern with a reasonable number,
\* 0 (None) when it has none
FirstReasonable(s, starts) ==
    LET i == FirstIndex({j \in starts : GuestNumReasonable(NumberAt(s, j))})
    IN  IF i = 0 THEN 0 ELSE NumberAt(s, i)

\* lines 18-27: the cascade over guest_patterns
RECURSIVE GuestCascade(_, _)
GuestCascade(s, patterns) ==
    IF patterns = <<>> THEN 0
    ELSE LET n == FirstReasonable(s, Head(patterns))
         IN  IF n # 0 THEN n ELSE GuestCascade(s, Tail(patterns))

ReDeriveGuests(text) ==
    LET s == Lower(text)
    IN  GuestCascade(s, <<GuestPattern1(s), GuestPattern2(s), GuestPattern3(s)>>)

\* lines 9-30
FixGuests(p, text) ==
    IF TruthyInt(p.guests) /\ p.guests[1] > 16
    THEN LET new_guests == ReDeriveGuests(text)
         IN  [p EXCEPT !.guests = Some(IF new_guests # 0 THEN new_guests ELSE 2)]
    ELSE p

\* keyword\s+\$?(\d+), lines 36, 37 and 39
KeywordNumberAt(s, i, kw) ==
    LET a == i + Len(kw)
        b == SpacesEnd(s, a)
        c == IF At(s, b) = "$" THEN b + 1 ELSE b
    IN  MatchAt(s, i, kw) /\ b > a /\ IsDigit(At(s, c))

KeywordNumber(s, kw) ==
    LET i == FirstIndex({j \in 1..Len(s) : KeywordNumberAt(s, j, kw)})
        b == SpacesEnd(s, i + Len(kw))
        c == IF At(s, b) = "$" THEN b + 1 ELSE b
    IN  IF i = 0 THEN NoMatch ELSE Match1(s, i, DigitsEnd(s, c), NumberAt(s, c))

\* line 43: up\s+to\s+\$?(\d+)
UpToNumber(s) ==
    LET ok(j) == /\ MatchAt(s, j, <<"u","p">>)
                 /\ SpacesEnd(s, j + 2) > j + 2
                 /\ KeywordNumberAt(s, SpacesEnd(s, j + 2), <<"t","o">>)
        i == FirstIndex({j \in 1..Len(s) : ok(j)})
        b == SpacesEnd(s, SpacesEnd(s, i + 2) + 2)
        c == IF At(s, b) = "$" THEN b + 1 ELSE b
    IN  IF i = 0 THEN NoMatch ELSE Match1(s, i, DigitsEnd(s, c), NumberAt(s, c))

\* the first digit at or after a that .*? can reach (no newline before it)
LazyDigit(s, a) ==
    FirstIndex({c \in a..Len(s) :
                   IsDigit(s[c]) /\ \A k \in a..(c-1) : s[k] # "LF"})

\* lines 41 and 42: keyword.*?\$?(\d+)
KeywordLazyNumber(s, kw) ==
    LET i == FirstIndex({j \in 1..Len(s) :
                            MatchAt(s, j, kw) /\ LazyDigit(s, j + Len(kw)) # 0})
        c == LazyDigit(s, i + Len(kw))
    IN  IF i = 0 THEN NoMatch ELSE Match1(s, i, DigitsEnd(s, c), NumberAt(s, c))

\* line 38: (\d+)\$?\s*(?:per\s*night\s*)?maximum.*?(\d+)\$?\s*area
\* MaximumEnd: the position after "maximum" for a match starting at i, or 0
MaximumEnd(s, i) ==
    LET a == DigitsEnd(s, i)
        b == SpacesEnd(s, IF At(s, a) = "$" THEN a + 1 ELSE a)
        n == SpacesEnd(s, b + 3)
        m == SpacesEnd(s, n + 5)
    IN  IF MatchAt(s, b, <<"p","e","r">>) /\ MatchAt(s, n, <<"n","i","g","h","t">>) /\ MatchAt(s, m, <<"m","a","x","i","m","u","m">>)
        THEN m + 7
        ELSE IF MatchAt(s, b, <<"m","a","x","i","m","u","m">>) THEN b + 7 ELSE 0
\* the first number after a, on the same line, that is followed by \$?\s*area
AreaNumber(s, a) ==
    FirstIndex({c \in a..Len(s) :
        LET e == DigitsEnd(s, c)
            f == SpacesEnd(s, IF At(s, e) = "$" THEN e + 1 ELSE e)
        IN  /\ IsDigit(s[c])
            /\ \A k \in a..(c-1) : s[k] # "LF"
            /\ MatchAt(s, f, <<"a","r","e","a">>)})
MaximumArea(s) ==
    LET ok(j) == MaximumEnd(s, j) # 0 /\ AreaNumber(s, MaximumEnd(s, j)) # 0
        i == FirstIndex({j \in RunStarts(s) : ok(j)})
        c == AreaNumber(s, MaximumEnd(s, i))
        e == DigitsEnd(s, c)
        f == SpacesEnd(s, IF At(s, e) = "$" THEN e + 1 ELSE e)
    IN  IF i = 0 THEN NoMatch
        ELSE Match2(s, i, f + 4, NumberAt(s, i), NumberAt(s, c))

\* line 40: (\d+)\s*(?:to|through|-)\s*(\d+)\s*(?:dollars?|\$|per\s*night)
\* RangeSecond: the position of the second number for a match starting at i
RangeSecond(s, i) ==
    LET b == SpacesEnd(s, DigitsEnd(s, i))
        t == AltEnd(s, b, {<<"t","o">>, <<"t","h","r","o","u","g","h">>, <<"-">>})
    IN  IF t = 0 THEN 0 ELSE SpacesEnd(s, t)
\* RangeEnd: the position after the unit that follows the number at c, or 0
RangeEnd(s, c) ==
    LET f == SpacesEnd(s, DigitsEnd(s, c))
        n == SpacesEnd(s, f + 3)
    IN  IF MatchAt(s, f, <<"d","o","l","l","a","r","s">>) THEN f + 7
        ELSE IF MatchAt(s, f, <<"d","o","l","l","a","r">>) THEN f + 6
        ELSE IF MatchAt(s, f, <<"$">>) THEN f + 1
        ELSE IF MatchAt(s, f, <<"p","e","r">>) /\ MatchAt(s, n, <<"n","i","g","h","t">>) THEN n + 5
        ELSE 0
RangeNumbers(s) ==
    LET ok(j) == /\ RangeSecond(s, j) # 0
                 /\ IsDigit(At(s, RangeSecond(s, j)))
                 /\ RangeEnd(s, RangeSecond(s, j)) # 0
        i == FirstIndex({j \in RunStarts(s) : ok(j)})
        c == RangeSecond(s, i)
    IN  IF i = 0 THEN NoMatch
        ELSE Match2(s, i, RangeEnd(s, c), NumberAt(s, i), NumberAt(s, c))

\* lines 35-44: re.search of every pattern of price_fix_patterns, in order
PriceFixMatches(text) ==
    LET s == Lower(text)
    IN  << KeywordNumber(s, <<"u","n","d","e","r">>),
           KeywordNumber(s, <<"b","e","l","o","w">>),
           MaximumArea(s),
           KeywordNumber(s, <<"a","r","o","u","n","d">>),
           RangeNumbers(s),
           KeywordLazyNumber(s, <<"b","u","d","g","e","t">>),
           KeywordLazyNumber(s, <<"m","a","x">>),
           UpToNumber(s) >>

\* lines 47-51
ShouldFixPrice(p) ==
    \/ TruthyInt(p.max_price) /\ p.max_price[1] > 500
    \/ IF TruthyInt(p.max_price)
       THEN TruthyInt(p.min_price) /\ p.min_price[1] > p.max_price[1]
       ELSE FALSE
    \/ ~TruthyInt(p.max_price) /\ ~TruthyInt(p.min_price)

\* lines 63 and 70
ReasonablePrice(n) == 20 <= n /\ n <= 1000

\* line 59
IsMaxConstraint(pattern_text) ==
    \E word \in {<<"u","n","d","e","r">>, <<"b","e","l","o","w">>, <<"m","a","x">>, <<"u","p"," ","t","o">>} : Contains(pattern_text, word)

Min(a, b) == IF a <= b THEN a ELSE b
Max(a, b) == IF a >= b THEN a ELSE b

\* lines 54-79: the first pattern that matches reasonable prices is applied
RECURSIVE ApplyPriceFix(_, _)
ApplyPriceFix(p, matches) ==
    IF matches = <<>> THEN p
    ELSE LET m == Head(matches)
         IN  IF ~m.found THEN ApplyPriceFix(p, Tail(matches))
             ELSE IF m.groups = 2
             THEN IF ReasonablePrice(m.g1) /\ ReasonablePrice(m.g2)
                  THEN [p EXCEPT !.min_price = Some(Min(m.g1, m.g2) - 50),
                                 !.max_price = Some(Max(m.g1, m.g2))]
                  ELSE ApplyPriceFix(p, Tail(matches))
             ELSE IF ReasonablePrice(m.g1)
                  THEN IF IsMaxConstraint(m.text)
                       THEN [p EXCEPT !.max_price = Some(m.g1),
                                      !.min_price = Some(Max(20, m.g1 - 100))]
                       ELSE [p EXCEPT !.max_price = Some(m.g1 + 50),
                                      !.min_price = Some(Max(20, m.g1 - 50))]
                  ELSE ApplyPriceFix(p, Tail(matches))

\* lines 33-79
FixPrice(p, text) ==
    IF text # <<>> /\ ShouldFixPrice(p)
    THEN ApplyPriceFix(p, PriceFixMatches(text))
    ELSE p

\* Mutant: the defaults are applied to a fresh query of four fields
DefaultGuestsOfFreshQuery(p) ==
    LET g == IF p.guests = None \/ p.guests[1] < 1 THEN 2
             ELSE IF p.guests[1] > 16 THEN 16 ELSE p.guests[1]
    IN  SearchParams(p.location, Some(g), p.min_price, p.max_price)

\* Mutant: a missing number of guests stays missing
DefaultGuestsOnlyClamps(p) ==
    IF p.guests # None /\ p.guests[1] > 16 THEN [p EXCEPT !.guests = Some(16)] ELSE p

\* lines 82-85
DefaultGuests(p) ==
    LET q == IF p.guests = None \/ p.guests[1] < 1
             THEN [p EXCEPT !.guests = Some(2)] ELSE p
    IN  IF q.guests[1] > 16 THEN [q EXCEPT !.guests = Some(16)] ELSE q

\* lines 87-91
CapPrices(p) ==
    LET q == IF TruthyInt(p.max_price) /\ p.max_price[1] > 2000
             THEN [p EXCEPT !.max_price = Some(500)] ELSE p
    IN  IF TruthyInt(q.min_price) /\ q.min_price[1] < 0
        THEN [q EXCEPT !.min_price = Some(20)] ELSE q

validate_and_fix_params(p, text) ==
    CapPrices(DefaultGuests(FixPrice(FixGuests(p, text), text)))

\* The inputs of the validator
GuestInputs == {None, Some(0), Some(-3), Some(1), Some(16), Some(17), Some(200)}
MinPriceInputs == {None, Some(0), Some(-10), Some(50), Some(300), Some(800)}
MaxPriceInputs == {None, Some(0), Some(10), Some(100), Some(600), Some(2500)}
\* the fields the validator does not look at: all unset, or all set
FrameInputs ==
    { [location |-> None, checkin |-> None, checkout |-> None,
       property_type |-> None, amenities |-> None],
      [location |-> Some(<<"T","o","k","y","o">>), checkin |-> Some(<<"2","0","2","6","-","0","6","-","1","5">>),
       checkout |-> Some(<<"2","0","2","6","-","0","6","-","2","0">>), property_type |-> Some(<<"l","o","f","t">>),
       amenities |-> Some(<<<<"w","i","f","i">>, <<"p","o","o","l">>>>)] }
ValidatorTexts ==
    { <<>>,
      <<"f","l","a","t"," ","i","n"," ","P","a","r","i","s">>,
      <<"2"," ","g","u","e","s","t","s"," ","a","r","o","u","n","d"," ","$","1","5","0">>,
      <<"F","o","r"," ","4"," ","a","d","u","l","t","s"," ","u","n","d","e","r"," ","$","2","0","0"," ","i","n"," ","T","o","k","y","o">>,
      <<"1","2","0"," ","p","e","o","p","l","e"," ","a","n","d"," ","3"," ","g","u","e","s","t","s",","," ","b","u","d","g","e","t"," ","9","0","0">>,
      <<"2","5"," ","p","e","o","p","l","e"," ","o","r"," ","8"," ","o","f"," ","u","s",","," ","1","0","0"," ","t","o"," ","2","0","0"," ","d","o","l","l","a","r","s">>,
      <<"2","0","0","$"," ","m","a","x","i","m","u","m",","," ","1","5","0","$"," ","a","r","e","a">>,
      <<"b","u","d","g","e","t"," ","5","0","0","0",","," ","m","a","x"," ","3","0","0","0">>,
      <<"u","p"," ","t","o"," ","8","0"," ","w","i","t","h"," ","1","2"," ","g","u","e","s","t","s">>,
      <<"9","9"," ","g","u","e","s","t","s",","," ","3","0"," ","-"," ","4","5"," ","p","e","r"," ","n","i","g","h","t">>,
      <<"b","u","d","g","e","t"," ","i","s"," ","m","a","x"," ","9","0"," ","f","o","r"," ","1","8"," ","p","e","o","p","l","e">>,
      <<"6","0"," ","t","o"," ","8","0"," ","d","o","l","l","a","r","s">> }

-----------------------------------------------------------------------------
(* validators.py: should_trigger_search and should_show_confirmation *)

\* lines 112-118
affirmative_responses ==
    { <<"y","e","s">>, <<"y","e","p">>, <<"y","e","a","h">>, <<"o","k">>, <<"o","k","a","y">>, <<"s","u","r","e">>, <<"g","o">>, <<"g","o"," ","a","h","e","a","d">>,
      <<"d","o"," ","i","t">>, <<"c","o","r","r","e","c","t">>, <<"t","h","a","t","'","s"," ","r","i","g","h","t">>, <<"s","t","a","r","t"," ","s","e","a","r","c","h","i","n","g">>, <<"s","e","a","r","c","h">>,
      <<"f","i","n","d">>, <<"l","e","t","'","s"," ","g","o">>, <<"p","r","o","c","e","e","d">>, <<"c","o","n","t","i","n","u","e">>, <<"g","o","o","d">>, <<"r","i","g","h","t">>,
      <<"f","i","n","e">>, <<"p","e","r","f","e","c","t">>, <<"e","x","a","c","t","l","y">>, <<"s","o","u","n","d","s"," ","g","o","o","d">>, <<"l","o","o","k","s"," ","g","o","o","d">>,
      <<"c","o","n","f","i","r","m","e","d">>, <<"d","o"," ","i","t"," ","n","o","w">>, <<"s","e","a","r","c","h"," ","n","o","w">>, <<"s","t","a","r","t">>, <<"b","e","g","i","n">>,
      <<"n","o","w">>, <<"p","l","e","a","s","e">> }

\* lines 125-130
explicit_search_triggers ==
    { <<"s","e","a","r","c","h">>, <<"f","i","n","d">>, <<"l","o","o","k"," ","f","o","r">>, <<"s","h","o","w"," ","m","e">>, <<"w","h","a","t","'","s"," ","a","v","a","i","l","a","b","l","e">>,
      <<"a","v","a","i","l","a","b","l","e">>, <<"c","a","n"," ","y","o","u"," ","s","e","a","r","c","h">>, <<"l","e","t","'","s"," ","s","e","e">>, <<"s","e","a","r","c","h"," ","f","o","r">>,
      <<"f","i","n","d"," ","m","e">>, <<"s","h","o","w"," ","o","p","t","i","o","n","s">>, <<"w","h","a","t"," ","d","o"," ","y","o","u"," ","h","a","v","e">>, <<"l","e","t"," ","m","e"," ","s","e","e">>,
      <<"g","e","t"," ","m","e">>, <<"j","u","s","t"," ","g","e","t"," ","m","e">>, <<"n","o","w"," ","s","e","a","r","c","h">>, <<"d","o"," ","s","e","a","r","c","h">>,
      <<"s","t","a","r","t"," ","s","e","a","r","c","h">>, <<"r","u","n"," ","s","e","a","r","c","h">>, <<"p","l","e","a","s","e"," ","s","e","a","r","c","h">>, <<"s","e","a","r","c","h"," ","p","l","e","a","s","e">> }

\* lines 137-140
price_indicators ==
    { <<"$">>, <<"b","u","d","g","e","t">>, <<"m","a","x">>, <<"m","a","x","i","m","u","m">>, <<"u","n","d","e","r">>, <<"b","e","l","o","w">>, <<"u","p"," ","t","o">>,
      <<"a","r","o","u","n","d">>, <<"c","o","s","t">>, <<"p","r","i","c","e">>, <<"e","x","p","e","n","s","i","v","e">>, <<"c","h","e","a","p">>, <<"a","f","f","o","r","d","a","b","l","e">>,
      <<"d","o","l","l","a","r">> }

\* lines 147-151
date_indicators ==
    { <<"j","u","n","e">>, <<"j","u","l","y">>, <<"a","u","g","u","s","t">>, <<"m","a","y">>, <<"a","p","r","i","l">>, <<"m","a","r","c","h">>, <<"j","a","n","u","a","r","y">>,
      <<"f","e","b","r","u","a","r","y">>, <<"s","e","p","t","e","m","b","e","r">>, <<"o","c","t","o","b","e","r">>, <<"n","o","v","e","m","b","e","r">>, <<"d","e","c","e","m","b","e","r">>,
      <<"/">>, <<"-">>, <<"c","h","e","c","k"," ","i","n">>, <<"c","h","e","c","k"," ","o","u","t">>, <<"c","h","e","c","k","i","n">>, <<"c","h","e","c","k","o","u","t">>,
      <<"d","a","t","e","s">>, <<"w","h","e","n">>, <<"s","t","a","y">> }

\* lines 158-162
guest_indicators ==
    { <<"p","e","o","p","l","e">>, <<"g","u","e","s","t","s">>, <<"g","u","e","s","t">>, <<"a","d","u","l","t","s">>, <<"a","d","u","l","t">>, <<"p","e","r","s","o","n">>,
      <<"p","e","r","s","o","n","s">>, <<"f","o","r"," ","1">>, <<"f","o","r"," ","2">>, <<"f","o","r"," ","3">>, <<"f","o","r"," ","4">>, <<"f","o","r"," ","5">>,
      <<"f","o","r"," ","6">>, <<"f","o","r"," ","7">>, <<"f","o","r"," ","8">>, <<"1"," ","p","e","r","s","o","n">>, <<"2"," ","p","e","o","p","l","e">>, <<"3"," ","p","e","o","p","l","e">>,
      <<"4"," ","p","e","o","p","l","e">>, <<"5"," ","p","e","o","p","l","e">>, <<"6"," ","p","e","o","p","l","e">> }

\* lines 181-181
stop_words ==
    { <<"n","o">>, <<"n","o","t">>, <<"d","o","n","'","t">>, <<"s","t","o","p">>, <<"w","a","i","t">>, <<"h","o","l","d"," ","o","n">>, <<"f","i","r","s","t">>,
      <<"b","e","f","o","r","e">> }

\* lines 187-190
area_specs ==
    { <<"d","o","w","n","t","o","w","n">>, <<"c","e","n","t","e","r">>, <<"n","e","a","r">>, <<"c","l","o","s","e"," ","t","o">>, <<"a","r","e","a">>, <<"d","i","s","t","r","i","c","t">>,
      <<"n","e","i","g","h","b","o","r","h","o","o","d">>, <<"r","e","g","i","o","n">>, <<"z","o","n","e">>, <<"p","a","r","t"," ","o","f">>, <<"s","i","d","e"," ","o","f">> }

\* lines 197-200
property_types ==
    { <<"a","p","a","r","t","m","e","n","t">>, <<"h","o","u","s","e">>, <<"v","i","l","l","a">>, <<"c","a","b","i","n">>, <<"l","o","f","t">>, <<"c","o","t","t","a","g","e">>,
      <<"h","o","m","e">>, <<"s","t","u","d","i","o">>, <<"r","o","o","m">>, <<"p","l","a","c","e">>, <<"a","c","c","o","m","m","o","d","a","t","i","o","n">>, <<"r","e","n","t","a","l">> }

\* lines 264-270
confirmation_indicators ==
    { <<"i","s"," ","t","h","i","s"," ","c","o","r","r","e","c","t">>, <<"s","h","o","u","l","d"," ","i"," ","s","t","a","r","t"," ","s","e","a","r","c","h","i","n","g">>,
      <<"w","o","u","l","d"," ","y","o","u"," ","l","i","k","e"," ","m","e"," ","t","o"," ","s","e","a","r","c","h">>, <<"r","e","a","d","y"," ","t","o"," ","s","e","a","r","c","h">>,
      <<"d","o","e","s"," ","t","h","i","s"," ","l","o","o","k"," ","g","o","o","d">>, <<"c","o","n","f","i","r","m"," ","t","h","e","s","e"," ","d","e","t","a","i","l","s">>, <<"s","e","a","r","c","h"," ","f","o","r">>,
      <<"d","o","e","s"," ","t","h","i","s"," ","s","o","u","n","d"," ","r","i","g","h","t">>, <<"c","o","r","r","e","c","t","?">>, <<"r","i","g","h","t","?">>, <<"s","h","a","l","l"," ","i">>,
      <<"s","h","o","u","l","d"," ","i">>, <<"r","e","a","d","y"," ","t","o">>, <<"c","o","n","f","i","r","m","a","t","i","o","n">>, <<"c","o","n","f","i","r","m">>,
      <<"w","o","u","l","d"," ","y","o","u"," ","l","i","k","e">>, <<"w","a","n","t"," ","m","e"," ","t","o">> }

AnyIn(s, words) == \E w \in words : Contains(s, w)

\* the Optional fields of a query, in the order of models.py
Query(location, guests, min_price, max_price, checkin, checkout, property_type, amenities) ==
    [location |-> location, checkin |-> checkin, checkout |-> checkout,
     guests |-> guests, min_price |-> min_price, max_price |-> max_price,
     property_type |-> property_type, amenities |-> amenities]

\* Mutant: only None counts as a missing location
LocationIsNone(p) == p.location = None

\* lines 103 and 239: not params.location
LocationMissing(p) == ~TruthySeq(p.location)

\* Mutant: the message is lower-cased but not stripped
LowerUnstripped(msg) == Lower(msg)

\* line 107
MessageLower(msg) == Strip(Lower(msg))

\* Mutant: every detail is required
HasEveryInfo(p) ==
    /\ TruthyInt(p.guests)
    /\ TruthyInt(p.max_price)
    /\ TruthyInt(p.min_price)
    /\ TruthySeq(p.property_type)
    /\ TruthySeq(p.checkin)
    /\ TruthySeq(p.checkout)
    /\ TruthySeq(p.amenities)

\* lines 169-177
HasAdditionalInfo(p) ==
    \/ TruthyInt(p.guests)
    \/ TruthyInt(p.max_price)
    \/ TruthyInt(p.min_price)
    \/ TruthySeq(p.property_type)
    \/ TruthySeq(p.checkin)
    \/ TruthySeq(p.checkout)
    \/ TruthySeq(p.amenities)

\* the position after [a-z]* matched from i
LowersEnd(s, i) ==
    CHOOSE j \in i..(Len(s) + 1) :
        /\ ~IsLower(At(s, j))
        /\ \A k \in i..(j-1) : IsLower(s[k])

\* lines 207-218: the four detail_patterns, searched in the message as typed
DetailNumber(msg) == \E i \in 1..Len(msg) : IsDigit(msg[i])
DetailMonthDay(msg) ==
    \E i \in 1..Len(msg) :
        LET a == LowersEnd(msg, i + 1)
            b == SpacesEnd(msg, a)
        IN  IsUpper(msg[i]) /\ a > i + 1 /\ b > a /\ IsDigit(At(msg, b))
DetailSlashDate(msg) ==
    \E i \in RunStarts(msg) :
        LET a == DigitsEnd(msg, i)
        IN  At(msg, a) = "/" /\ IsDigit(At(msg, a + 1))
DetailDollar(msg) ==
    \E i \in 1..Len(msg) : msg[i] = "$" /\ IsDigit(At(msg, i + 1))
HasDetailPattern(msg) ==
    DetailNumber(msg) \/ DetailMonthDay(msg) \/ DetailSlashDate(msg) \/ DetailDollar(msg)

\* " ".join(texts)
RECURSIVE JoinSpace(_)
JoinSpace(texts) ==
    IF texts = <<>> THEN <<>>
    ELSE IF Len(texts) = 1 THEN texts[1]
    ELSE texts[1] \o <<" ">> \o JoinSpace(Tail(texts))

\* [msg for msg in conversation_history if msg.get("sender") == who]
RECURSIVE TextsOf(_, _)
TextsOf(h, who) ==
    IF h = <<>> THEN <<>>
    ELSE IF Head(h).sender = who
         THEN <<Head(h).text>> \o TextsOf(Tail(h), who)
         ELSE TextsOf(Tail(h), who)

\* Mutant: a location counts as new on every turn
LocationAlwaysNew(p, h) == TRUE

\* lines 224-225
LocationIsNew(p, h) ==
    ~Contains(Lower(JoinSpace(TextsOf(h, "user"))), Lower(p.location[1]))

\* lines 96-230
should_trigger_search(msg, p, h) ==
    LET message_lower == MessageLower(msg)
    IN  IF LocationMissing(p) THEN FALSE
        ELSE IF message_lower \in affirmative_responses THEN TRUE
        ELSE IF AnyIn(message_lower, explicit_search_triggers) THEN TRUE
        ELSE IF AnyIn(message_lower, price_indicators) THEN TRUE
        ELSE IF AnyIn(message_lower, date_indicators) THEN TRUE
        ELSE IF AnyIn(message_lower, guest_indicators) THEN TRUE
        ELSE IF HasAdditionalInfo(p) /\ ~AnyIn(message_lower, stop_words) THEN TRUE
        ELSE IF AnyIn(message_lower, area_specs) THEN TRUE
        ELSE IF AnyIn(message_lower, property_types) THEN TRUE
        ELSE IF HasDetailPattern(msg) THEN TRUE
        ELSE IF LocationIsNew(p, h) THEN TRUE
        ELSE FALSE

\* lines 243-251
HasGoodInfo(p) ==
    \/ TruthyInt(p.guests)
    \/ TruthyInt(p.max_price)
    \/ TruthyInt(p.min_price)
    \/ TruthySeq(p.checkin)
    \/ TruthySeq(p.checkout)

\* conversation_history[-10:]
LastTen(h) == SubSeq(h, IF Len(h) > 10 THEN Len(h) - 9 ELSE 1, Len(h))

RECURSIVE Concat(_)
Concat(texts) == IF texts = <<>> THEN <<>> ELSE Head(texts) \o Concat(Tail(texts))

\* lines 258-262
RecentConversation(h) == Lower(Concat(TextsOf(LastTen(h), "assistant")))

\* lines 278-287
OnlyHasLocation(p) ==
    /\ ~LocationMissing(p)
    /\ ~TruthyInt(p.guests)
    /\ ~TruthyInt(p.max_price)
    /\ ~TruthyInt(p.min_price)
    /\ ~TruthySeq(p.checkin)
    /\ ~TruthySeq(p.checkout)
    /\ ~TruthySeq(p.property_type)
    /\ ~TruthySeq(p.amenities)

\* line 291
TotalUserMessages(h) == Len(TextsOf(h, "user"))

\* lines 232-297
should_show_confirmation(p, h) ==
    IF LocationMissing(p) THEN FALSE
    ELSE IF HasGoodInfo(p) THEN FALSE
    ELSE IF AnyIn(RecentConversation(h), confirmation_indicators) THEN FALSE
    ELSE IF OnlyHasLocation(p) /\ TotalUserMessages(h) <= 2 THEN TRUE
    ELSE FALSE

\* lines 299-315
get_missing_params_message(p) ==
    LET missing ==
            (IF LocationMissing(p) THEN <<<<"d","e","s","t","i","n","a","t","i","o","n","/","l","o","c","a","t","i","o","n">>>> ELSE <<>>)
         \o (IF ~TruthyInt(p.guests) THEN <<<<"n","u","m","b","e","r"," ","o","f"," ","g","u","e","s","t","s">>>> ELSE <<>>)
         \o (IF ~TruthyInt(p.min_price) /\ ~TruthyInt(p.max_price)
             THEN <<<<"b","u","d","g","e","t"," ","r","a","n","g","e">>>> ELSE <<>>)
        RECURSIVE JoinComma(_)
        JoinComma(parts) ==
            IF parts = <<>> THEN <<>>
            ELSE IF Len(parts) = 1 THEN parts[1]
            ELSE parts[1] \o <<","," ">> \o JoinComma(Tail(parts))
    IN  IF missing # <<>>
        THEN <<"I"," ","s","t","i","l","l"," ","n","e","e","d"," ","a"," ","f","e","w"," ","m","o","r","e"," ","d","e","t","a","i","l","s",":"," ">> \o JoinComma(missing) \o <<"."," ">>
        ELSE <<"I"," ","h","a","v","e"," ","m","o","s","t"," ","o","f"," ","t","h","e"," ","i","n","f","o","r","m","a","t","i","o","n","."," ","W","o","u","l","d"," ","y","o","u"," ","l","i","k","e"," ","m","e"," ","t","o"," ","s","e","a","r","c","h"," ","f","o","r"," ","o","p","t","i","o","n","s"," ","n","o","w","?">>

-----------------------------------------------------------------------------
(* utils.py: format_search_confirmation.  The pictographs are one          *)
(* character each, written by their code points.                           *)

RECURSIVE JoinBullet(_)
JoinBullet(parts) ==
    IF parts = <<>> THEN <<>>
    ELSE IF Len(parts) = 1 THEN parts[1]
    ELSE parts[1] \o <<" ", "U+2022", " ">> \o JoinBullet(Tail(parts))

\* lines 74-96
format_search_confirmation(p) ==
    LET parts ==
            (IF TruthySeq(p.location)
             THEN << <<"U+1F4CD", " ">> \o p.location[1] >> ELSE <<>>)
         \o (IF TruthyInt(p.guests)
             THEN << <<"U+1F465", " ">> \o IntToStr(p.guests[1]) \o <<" ","g","u","e","s","t","s">> >>
             ELSE <<>>)
         \o (IF TruthyInt(p.max_price)
             THEN << <<"U+1F4B0", " ">> \o <<"U","p"," ","t","o"," ","$">> \o IntToStr(p.max_price[1])
                     \o <<"/","n","i","g","h","t">> >>
             ELSE IF TruthyInt(p.min_price)
             THEN << <<"U+1F4B0", " ">> \o <<"F","r","o","m"," ","$">> \o IntToStr(p.min_price[1])
                     \o <<"/","n","i","g","h","t">> >>
             ELSE <<>>)
         \o (IF TruthySeq(p.property_type)
             THEN << <<"U+1F3E0", " ">> \o Title(p.property_type[1]) >> ELSE <<>>)
    IN  <<"S","e","a","r","c","h","i","n","g"," ","f","o","r",":"," ">> \o JoinBullet(parts) \o <<"LF","LF","S","o","u","n","d"," ","g","o","o","d","?">>

-----------------------------------------------------------------------------
(* The evaluator: the action of a turn *)

EvaluatorAction(msg, p, h) ==
    IF should_trigger_search(msg, p, h) THEN "ExecuteSearch"
    ELSE IF should_show_confirmation(p, h) THEN "RequestConfirmation"
    ELSE "RequestMoreInfo"

-----------------------------------------------------------------------------
(* The variables of the components a specification leaves alone *)

ScrapeIdle ==
    /\ pc = "idle"
    /\ search_url = <<>>
    /\ max_listings = 0
    /\ results = <<>>
    /\ elapsed_time = 0
    /\ clock = 0
    /\ driver_cache = 0
    /\ sessions = [s \in 1..MaxSessions |-> "none"]
    /\ driver = 0
    /\ pending = Returned(<<>>)
    /\ escaped = FALSE
    /\ fast_res = <<>>
    /\ errors = {}

ValidateIdle ==
    /\ v_pc = "idle"
    /\ v_in = <<>>
    /\ v_text = <<>>
    /\ v_out = <<>>

EvalIdle ==
    /\ e_pc = "idle"
    /\ message = <<>>
    /\ params = <<>>
    /\ history = <<>>
    /\ action = "none"
    /\ prev_action = "none"
    /\ turns = 0

ExtractIdle ==
    /\ x_pc = "idle"
    /\ conversation_text = <<>>
    /\ x_params = <<>>
    /\ llm_response = [kind |-> "none"]
    /\ llm_params = <<>>
    /\ x_raised = FALSE
    /\ m_pc = "idle"
    /\ m_text = <<>>
    /\ m_today = <<>>
    /\ m_out = <<>>

CallsIdle == calls = <<>>

-----------------------------------------------------------------------------
(* scrape_airbnb_listings, one action per stage of the call *)

\* lines 477-483: a call starts
Call(url, max) ==
    /\ pc = "idle"
    /\ FreeSessions # {}
    /\ pc' = "fast"
    /\ search_url' = url
    /\ max_listings' = max
    /\ results' = <<>>
    /\ elapsed_time' = 0
    /\ clock' = 0
    /\ driver' = 0
    /\ pending' = Returned(<<>>)
    /\ escaped' = FALSE
    /\ fast_res' = <<>>
    /\ errors' = {}
    /\ UNCHANGED <<driver_cache, sessions>>

\* lines 485-499: the fast tier, then the check of the time budget
FastTier(page, duration) ==
    /\ pc = "fast"
    /\ LET res == scrape_airbnb_listings_requests(page, max_listings)
           elapsed == elapsed_time + duration
       IN  /\ elapsed_time' = elapsed
           /\ clock' = elapsed
           /\ fast_res' = res
           /\ errors' = IF page.error THEN {"fetch"} ELSE {}
           /\ IF FastTierAccepted(res)
              THEN pc' = "done" /\ results' = res
              ELSE IF BudgetExhausted(elapsed)
                   THEN /\ pc' = "done"
                        /\ results' = generate_fallback_results(search_url)
                   ELSE pc' = "sel_acquire" /\ results' = <<>>
    /\ UNCHANGED <<search_url, max_listings, driver_cache, sessions, driver,
                   pending, escaped>>

\* scrape_airbnb_listings_selenium lines 87-124: probe the cached session,
\* create and cache a new one when there is none to reuse.  An exception
\* goes to the handler of lines 380-390, which returns the placeholder.
SelAcquire(probe_ok, create_ok, script_ok) ==
    /\ pc = "sel_acquire"
    /\ IF driver_cache # 0 /\ ProbeSucceeds(probe_ok)
       THEN /\ driver' = driver_cache
            /\ pc' = "sel_nav"
            /\ UNCHANGED <<driver_cache, sessions, pending, errors>>
       ELSE LET probed == IF driver_cache # 0 THEN {"probe"} ELSE {}
            IN  IF ~create_ok
                THEN /\ driver' = 0
                     /\ driver_cache' = 0
                     /\ pending' = Returned(SeleniumPlaceholder(search_url))
                     /\ errors' = errors \cup probed \cup {"create"}
                     /\ pc' = "sel_finally"
                     /\ UNCHANGED sessions
                ELSE LET s == CHOOSE x \in FreeSessions :
                                  \A y \in FreeSessions : x <= y
                     IN  /\ sessions' = [sessions EXCEPT ![s] = "live"]
                         /\ driver' = s
                         /\ IF script_ok
                            THEN /\ driver_cache' = s
                                 /\ pc' = "sel_nav"
                                 /\ errors' = errors \cup probed
                                 /\ UNCHANGED pending
                            ELSE /\ driver_cache' = 0
                                 /\ pending' = Returned(SeleniumPlaceholder(search_url))
                                 /\ errors' = errors \cup probed \cup {"script"}
                                 /\ pc' = "sel_finally"
    /\ UNCHANGED <<search_url, max_listings, results, elapsed_time, clock, escaped,
                   fast_res>>

\* lines 131-139: time.sleep(1), then WebDriverWait(driver, 5), which
\* returns at once when the listings are there and raises after 5 s
NavigateSeconds(outcome) ==
    CASE outcome = "ok" -> 1
      [] outcome = "timeout" -> 1 + 5
      [] OTHER -> 0

\* lines 126-140: navigate and wait for the listings; a TimeoutException of
\* the wait is caught, any other exception goes to the handler
SelNavigate(outcome) ==
    /\ pc = "sel_nav"
    /\ IF outcome = "error"
       THEN /\ pending' = Returned(SeleniumPlaceholder(search_url))
            /\ errors' = errors \cup {"navigate"}
            /\ pc' = "sel_finally"
       ELSE /\ pc' = "sel_extract"
            /\ UNCHANGED <<pending, errors>>
    /\ clock' = clock + NavigateSeconds(outcome)
    /\ UNCHANGED <<search_url, max_listings, results, elapsed_time,
                   driver_cache, sessions, driver, escaped, fast_res>>

\* lines 142-378: read the listings; with none, the placeholder (reading
\* page_source may raise, and the handler returns the placeholder too)
SelExtract(dom, source_ok) ==
    /\ pc = "sel_extract"
    /\ LET found == SeleniumSelectors(dom, max_listings, search_url)
           listings == IF found = <<>>
                       THEN SeleniumPlaceholder(search_url)
                       ELSE found
           tried(i) == \A j \in 1..(i-1) :
                           \/ dom[j].error
                           \/ SeleniumElements(dom[j].elements, 0, max_listings,
                                               search_url) = <<>>
       IN  /\ pending' = IF found = <<>> /\ ~source_ok
                         THEN Returned(SeleniumPlaceholder(search_url))
                         ELSE Returned(Take(listings, max_listings))
           /\ errors' = errors
                 \cup (IF \E i \in 1..Len(dom) : dom[i].error /\ tried(i)
                       THEN {"find"} ELSE {})
                 \cup (IF found = <<>> /\ ~source_ok THEN {"page_source"} ELSE {})
    /\ pc' = "sel_finally"
    /\ UNCHANGED <<search_url, max_listings, results, elapsed_time, clock,
                   driver_cache, sessions, driver, escaped, fast_res>>

\* lines 392-395: the finally clause quits the session; an exception of
\* quit() replaces the value being returned
SelFinally(quit_ok) ==
    /\ pc = "sel_finally"
    /\ IF driver # 0
       THEN /\ sessions' = [sessions EXCEPT ![driver] = SessionAfterQuit(quit_ok)]
            /\ pending' = IF quit_ok THEN pending ELSE Raised
            /\ errors' = IF quit_ok THEN errors ELSE errors \cup {"quit"}
       ELSE UNCHANGED <<sessions, pending, errors>>
    /\ pc' = "sel_return"
    /\ UNCHANGED <<search_url, max_listings, results, elapsed_time, clock,
                   driver_cache, driver, escaped, fast_res>>

\* scrape_airbnb_listings lines 503-512
SelReturn ==
    /\ pc = "sel_return"
    /\ LET r == AfterSelenium(pending, search_url)
       IN  /\ results' = r.results
           /\ escaped' = r.escaped
    /\ pc' = "done"
    /\ UNCHANGED <<search_url, max_listings, elapsed_time, clock, driver_cache,
                   sessions, driver, pending, fast_res, errors>>

\* the caller takes the result; the next call may start
Return ==
    /\ pc = "done"
    /\ pc' = "idle"
    /\ UNCHANGED <<search_url, max_listings, results, elapsed_time, clock,
                   driver_cache, sessions, driver, pending, escaped, fast_res,
                   errors>>

\* lines 20-31: cleanup_driver, registered with atexit; no call follows it
Cleanup(quit_ok) ==
    /\ pc = "idle"
    /\ pc' = "exited"
    /\ sessions' = IF driver_cache # 0
                   THEN [sessions EXCEPT ![driver_cache] =
                            IF @ \in {"live", "quit_failed"}
                            THEN SessionAfterQuit(quit_ok) ELSE @]
                   ELSE sessions
    /\ driver_cache' = 0
    /\ UNCHANGED <<search_url, max_listings, results, elapsed_time, clock, driver,
                   pending, escaped, fast_res, errors>>

Init == ScrapeIdle /\ ValidateIdle /\ EvalIdle /\ ExtractIdle /\ CallsIdle

Next ==
    /\ UNCHANGED <<validate_vars, eval_vars, extract_vars, calls>>
    /\ \/ \E url \in SearchUrls, max \in 1..MaxMaxListings : Call(url, max)
       \/ \E page \in FastPages, duration \in FastDurations : FastTier(page, duration)
       \/ \E probe_ok, create_ok, script_ok \in BOOLEAN :
              SelAcquire(probe_ok, create_ok, script_ok)
       \/ \E outcome \in {"ok", "timeout", "error"} : SelNavigate(outcome)
       \/ \E dom \in SeleniumDoms, source_ok \in BOOLEAN : SelExtract(dom, source_ok)
       \/ \E quit_ok \in BOOLEAN : SelFinally(quit_ok)
       \/ SelReturn
       \/ Return
       \/ \E quit_ok \in BOOLEAN : Cleanup(quit_ok)

Spec == Init /\ [][Next]_vars

-----------------------------------------------------------------------------
(* scrape_airbnb_listings_selenium called from several threads.  The       *)
(* module global _driver_cache is read and written without a lock, so      *)
(* every read and write of it is a step of its own.                        *)

Threads == 1..MaxThreads

InitConcurrent ==
    /\ ScrapeIdle
    /\ ValidateIdle
    /\ EvalIdle
    /\ ExtractIdle
    /\ calls = [t \in Threads |-> [pc |-> "idle", driver |-> 0]]

\* line 89: if _driver_cache
ThreadCheck(t) ==
    /\ calls[t].pc = "idle"
    /\ FreeSessions # {}
    /\ calls' = [calls EXCEPT ![t] =
                    [pc |-> IF driver_cache # 0 THEN "probe" ELSE "create",
                     driver |-> 0]]
    /\ UNCHANGED <<driver_cache, sessions>>
    /\ UNCHANGED <<pc, search_url, max_listings, results, elapsed_time, clock, driver,
                   pending, escaped, fast_res, errors>>
    /\ UNCHANGED <<validate_vars, eval_vars, extract_vars>>

\* lines 90-98: _driver_cache.current_url; the bare except also catches
\* the AttributeError when another thread has emptied the cache meanwhile
ThreadProbe(t, probe_ok) ==
    /\ calls[t].pc = "probe"
    /\ IF driver_cache # 0 /\ ProbeSucceeds(probe_ok)
       THEN /\ calls' = [calls EXCEPT ![t].pc = "assign"]
            /\ UNCHANGED driver_cache
       ELSE /\ calls' = [calls EXCEPT ![t].pc = "create"]
            /\ driver_cache' = 0
    /\ UNCHANGED sessions
    /\ UNCHANGED <<pc, search_url, max_listings, results, elapsed_time, clock, driver,
                   pending, escaped, fast_res, errors>>
    /\ UNCHANGED <<validate_vars, eval_vars, extract_vars>>

\* lines 93 and 103: driver = _driver_cache, whatever the cache holds by now
ThreadAssign(t) ==
    /\ calls[t].pc = "assign"
    /\ calls' = [calls EXCEPT ![t] =
                    [pc |-> IF driver_cache # 0 THEN "navigate" ELSE "create",
                     driver |-> driver_cache]]
    /\ UNCHANGED <<driver_cache, sessions>>
    /\ UNCHANGED <<pc, search_url, max_listings, results, elapsed_time, clock, driver,
                   pending, escaped, fast_res, errors>>
    /\ UNCHANGED <<validate_vars, eval_vars, extract_vars>>

\* lines 103-121: a new session and the script injected into it.  When no
\* session can be created the finally clause has no driver to quit; when
\* the injection raises, the session exists and is not cached.
ThreadCreate(t, create_ok, script_ok) ==
    /\ calls[t].pc = "create"
    /\ IF create_ok /\ FreeSessions # {}
       THEN LET s == CHOOSE x \in FreeSessions : \A y \in FreeSessions : x <= y
            IN  /\ sessions' = [sessions EXCEPT ![s] = "live"]
                /\ calls' = [calls EXCEPT ![t] =
                                [pc |-> IF script_ok THEN "cache" ELSE "failed",
                                 driver |-> s]]
       ELSE /\ calls' = [calls EXCEPT ![t] = [pc |-> "idle", driver |-> 0]]
            /\ UNCHANGED sessions
    /\ UNCHANGED driver_cache
    /\ UNCHANGED <<pc, search_url, max_listings, results, elapsed_time, clock, driver,
                   pending, escaped, fast_res, errors>>
    /\ UNCHANGED <<validate_vars, eval_vars, extract_vars>>

\* line 124: _driver_cache = driver
ThreadCache(t) ==
    /\ calls[t].pc = "cache"
    /\ driver_cache' = calls[t].driver
    /\ calls' = [calls EXCEPT ![t].pc = "navigate"]
    /\ UNCHANGED sessions
    /\ UNCHANGED <<pc, search_url, max_listings, results, elapsed_time, clock, driver,
                   pending, escaped, fast_res, errors>>
    /\ UNCHANGED <<validate_vars, eval_vars, extract_vars>>

\* line 127: driver.get(search_url); lines 128-378 then read the page
ThreadNavigate(t, get_ok) ==
    /\ calls[t].pc = "navigate"
    /\ calls' = [calls EXCEPT ![t].pc = IF get_ok THEN "reading" ELSE "failed"]
    /\ UNCHANGED <<driver_cache, sessions>>
    /\ UNCHANGED <<pc, search_url, max_listings, results, elapsed_time, clock, driver,
                   pending, escaped, fast_res, errors>>
    /\ UNCHANGED <<validate_vars, eval_vars, extract_vars>>

\* lines 392-395: the finally clause quits the session and the call returns
ThreadFinally(t, quit_ok) ==
    /\ calls[t].pc \in {"reading", "failed"}
    /\ sessions' = [sessions EXCEPT ![calls[t].driver] =
                        IF @ = "quit" THEN "quit" ELSE SessionAfterQuit(quit_ok)]
    /\ calls' = [calls EXCEPT ![t] = [pc |-> "idle", driver |-> 0]]
    /\ UNCHANGED driver_cache
    /\ UNCHANGED <<pc, search_url, max_listings, results, elapsed_time, clock, driver,
                   pending, escaped, fast_res, errors>>
    /\ UNCHANGED <<validate_vars, eval_vars, extract_vars>>

NextConcurrent ==
    \/ \E t \in Threads : ThreadCheck(t)
    \/ \E t \in Threads, probe_ok \in BOOLEAN : ThreadProbe(t, probe_ok)
    \/ \E t \in Threads : ThreadAssign(t)
    \/ \E t \in Threads, create_ok, script_ok \in BOOLEAN :
          ThreadCreate(t, create_ok, script_ok)
    \/ \E t \in Threads : ThreadCache(t)
    \/ \E t \in Threads, get_ok \in BOOLEAN : ThreadNavigate(t, get_ok)
    \/ \E t \in Threads, quit_ok \in BOOLEAN : ThreadFinally(t, quit_ok)

SpecConcurrent == InitConcurrent /\ [][NextConcurrent]_vars

-----------------------------------------------------------------------------
(* validate_and_fix_params applied to every input of the bounded sets *)

InitValidate ==
    /\ ScrapeIdle
    /\ EvalIdle
    /\ ExtractIdle
    /\ CallsIdle
    /\ v_pc = "ready"
    /\ v_in \in {Query(f.location, g, lo, hi, f.checkin, f.checkout,
                       f.property_type, f.amenities) :
                    f \in FrameInputs, g \in GuestInputs,
                    lo \in MinPriceInputs, hi \in MaxPriceInputs}
    /\ v_text \in ValidatorTexts
    /\ v_out = <<>>

Validate ==
    /\ v_pc = "ready"
    /\ v_out' = validate_and_fix_params(v_in, v_text)
    /\ v_pc' = "done"
    /\ UNCHANGED <<v_in, v_text>>

\* the validator is called again on its own result, with the same text
Revalidate ==
    /\ v_pc = "done"
    /\ v_in' = v_out
    /\ v_out' = validate_and_fix_params(v_out, v_text)
    /\ v_pc' = "again"
    /\ UNCHANGED v_text

NextValidate ==
    /\ Validate \/ Revalidate
    /\ UNCHANGED <<scrape_vars, eval_vars, extract_vars, calls>>

SpecValidate == InitValidate /\ [][NextValidate]_vars

-----------------------------------------------------------------------------
(* The evaluator applied to every input of the bounded sets *)

User(text) == [sender |-> "user", text |-> text]
Assistant(text) == [sender |-> "assistant", text |-> text]

Tokyo == Some(<<"T","o","k","y","o">>)
NoQuery == Query(None, None, None, None, None, None, None, None)
LocationOnly == Query(Tokyo, None, None, None, None, None, None, None)
LocationGuests == Query(Tokyo, Some(2), None, None, None, None, None, None)
Comprehensive ==
    Query(Tokyo, Some(2), None, Some(150), Some(<<"2","0","2","6","-","0","6","-","1","5">>), Some(<<"2","0","2","6","-","0","6","-","2","0">>),
          None, None)

EvalQueries ==
    { NoQuery,
      Query(None, Some(2), Some(50), Some(150), None, None, None, None),
      Query(Some(<<>>), Some(4), None, None, None, None, None, None),
      LocationOnly,
      Query(Tokyo, Some(0), None, None, None, None, None, Some(<<>>)),
      LocationGuests,
      Query(Tokyo, None, None, Some(150), None, None, None, None),
      Query(Tokyo, None, None, None, None, None, Some(<<"l","o","f","t">>), None),
      Query(Tokyo, None, None, None, None, None, None, Some(<<<<"w","i","f","i">>>>)),
      Comprehensive,
      Query(Tokyo, Some(3), Some(100), None, Some(<<"2","0","2","6","-","0","6","-","1","5">>), None,
            Some(<<"v","i","l","l","a">>), Some(<<<<"p","o","o","l">>>>)) }

EvalMessages ==
    { <<"y","e","s">>, <<"o","k">>, <<"g","o">>, <<"c","o","r","r","e","c","t">>, <<" "," ","Y","E","S"," ">>, <<"S","o","u","n","d","s"," ","g","o","o","d">>,
      <<"p","l","e","a","s","e"," ","s","e","a","r","c","h"," ","n","o","w">>, <<"c","a","n"," ","y","o","u"," ","f","i","n","d"," ","m","e"," ","s","o","m","e","t","h","i","n","g">>, <<"S","h","o","w"," ","m","e"," ","o","p","t","i","o","n","s">>,
      <<"h","m","m">>, <<"w","e","l","l">>, <<"I"," ","k","n","o","w">>, <<"m","a","y","b","e"," ","l","a","t","e","r">>, <<"T","o","k","y","o">>, <<"2">>,
      <<"s","o","m","e","w","h","e","r","e"," ","q","u","i","e","t"," ","i","n"," ","t","h","e"," ","o","l","d"," ","t","o","w","n">>,
      <<"y","e","s"," ","b","u","t"," ","w","a","i","t">>,
      <<"I"," ","t","h","i","n","k"," ","t","h","a","t"," ","w","o","u","l","d"," ","b","e"," ","r","e","a","l","l","y"," ","g","r","e","a","t"," ","t","h","a","n","k","s">>,
      <<"I"," ","d","o"," ","n","o","t"," ","t","h","i","n","k"," ","t","h","a","t"," ","i","s"," ","w","h","a","t"," ","w","e"," ","w","a","n","t","e","d">>,
      <<"w","e"," ","w","o","u","l","d"," ","l","i","k","e"," ","t","w","o"," ","r","o","o","m","s"," ","w","i","t","h"," ","a"," ","b","i","g"," ","b","a","l","c","o","n","y">>,
      <<"i","t"," ","i","s"," ","f","o","r"," ","2"," ","p","e","o","p","l","e"," ","a","r","o","u","n","d"," ","$","1","5","0"," ","i","n"," ","J","u","n","e">> }

EvalTurns ==
    { User(<<"I"," ","w","a","n","t"," ","t","o"," ","g","o"," ","t","o"," ","T","o","k","y","o">>),
      User(<<"h","m","m">>),
      Assistant(format_search_confirmation(LocationOnly)),
      Assistant(<<"S","h","o","u","l","d"," ","I"," ","s","t","a","r","t"," ","s","e","a","r","c","h","i","n","g","?">>) }

EvalHistories == UNION {[1..n -> EvalTurns] : n \in 0..MaxHistory}

InitEval ==
    /\ ScrapeIdle
    /\ ValidateIdle
    /\ ExtractIdle
    /\ CallsIdle
    /\ e_pc = "ready"
    /\ message \in EvalMessages
    /\ params \in EvalQueries
    /\ history \in EvalHistories
    /\ action = "none"
    /\ prev_action = "none"
    /\ turns = 0

Evaluate ==
    /\ e_pc = "ready"
    /\ action' = EvaluatorAction(message, params, history)
    /\ e_pc' = "done"
    /\ turns' = 1
    /\ UNCHANGED <<message, params, history, prev_action>>

NextEval ==
    /\ Evaluate
    /\ UNCHANGED <<scrape_vars, validate_vars, extract_vars, calls>>

SpecEval == InitEval /\ [][NextEval]_vars

-----------------------------------------------------------------------------
(* The evaluator applied to the query that validate_and_fix_params returned *)

InitValidated ==
    /\ ScrapeIdle
    /\ ExtractIdle
    /\ CallsIdle
    /\ v_pc = "ready"
    /\ v_in \in {Query(l, g, None, None, None, None, None, None) :
                    l \in {None, Tokyo}, g \in GuestInputs}
    /\ v_text \in {<<>>, <<"f","l","a","t"," ","i","n"," ","P","a","r","i","s">>, <<"9","9"," ","g","u","e","s","t","s",","," ","3","0"," ","-"," ","4","5"," ","p","e","r"," ","n","i","g","h","t">>}
    /\ v_out = <<>>
    /\ e_pc = "ready"
    /\ message \in {<<"h","m","m">>, <<"y","e","s">>, <<"I"," ","k","n","o","w">>, <<"m","a","y","b","e"," ","l","a","t","e","r">>, <<"T","o","k","y","o">>}
    /\ params = <<>>
    /\ history \in UNION {[1..n -> {User(<<"I"," ","w","a","n","t"," ","t","o"," ","g","o"," ","t","o"," ","T","o","k","y","o">>),
                                       Assistant(<<"S","h","o","u","l","d"," ","I"," ","s","t","a","r","t"," ","s","e","a","r","c","h","i","n","g","?">>)}] :
                               n \in 0..MaxHistory}
    /\ action = "none"
    /\ prev_action = "none"
    /\ turns = 0

\* the turn is evaluated on the validated query
EvaluateValidated ==
    /\ v_pc = "done"
    /\ e_pc = "ready"
    /\ params' = v_out
    /\ action' = EvaluatorAction(message, v_out, history)
    /\ e_pc' = "done"
    /\ turns' = 1
    /\ UNCHANGED <<message, history, prev_action>>
    /\ UNCHANGED <<scrape_vars, validate_vars, extract_vars, calls>>

NextValidated ==
    \/ Validate /\ UNCHANGED <<scrape_vars, eval_vars, extract_vars, calls>>
    \/ EvaluateValidated

SpecValidated == InitValidated /\ [][NextValidated]_vars

-----------------------------------------------------------------------------
(* A conversation: every turn is evaluated on the history so far, and the  *)
(* user's message and the assistant's reply are appended to the history    *)

ConvQueries == {NoQuery, LocationOnly, LocationGuests}

ConvMessages == {<<"I"," ","w","a","n","t"," ","t","o"," ","g","o"," ","t","o"," ","T","o","k","y","o">>, <<"h","m","m">>, <<"w","e","l","l">>, <<"y","e","s">>, <<"n","o","t"," ","y","e","t">>}

\* the query accumulates: a field that is set keeps its value
Accumulates(p, q) == \A f \in DOMAIN p : p[f] # None => q[f] = p[f]

\* what the assistant says in a turn
Reply(a, p) ==
    IF a = "RequestConfirmation" THEN format_search_confirmation(p)
    ELSE IF a = "RequestMoreInfo" THEN get_missing_params_message(p)
    ELSE <<"I"," ","f","o","u","n","d"," ","s","o","m","e"," ","o","p","t","i","o","n","s"," ","f","o","r"," ","y","o","u"," ","i","n"," ">> \o p.location[1]

InitConv ==
    /\ ScrapeIdle
    /\ ValidateIdle
    /\ ExtractIdle
    /\ CallsIdle
    /\ e_pc = "ready"
    /\ message = <<>>
    /\ params = NoQuery
    /\ history = <<>>
    /\ action = "none"
    /\ prev_action = "none"
    /\ turns = 0

Turn(msg, p) ==
    /\ turns < MaxTurns
    /\ Accumulates(params, p)
    /\ LET a == EvaluatorAction(msg, p, history)
       IN  /\ action' = a
           /\ history' = history \o <<User(msg), Assistant(Reply(a, p))>>
    /\ prev_action' = action
    /\ message' = msg
    /\ params' = p
    /\ turns' = turns + 1
    /\ e_pc' = "done"

NextConv ==
    /\ \E msg \in ConvMessages, p \in ConvQueries : Turn(msg, p)
    /\ UNCHANGED <<scrape_vars, validate_vars, extract_vars, calls>>

SpecConv == InitConv /\ [][NextConv]_vars

-----------------------------------------------------------------------------
(* extractors.py: extract_search_params, the deterministic pass followed   *)
(* by the completion fallback                                              *)

\* lines 210-406: what the deterministic pass returns for the texts of the
\* model (the fields the orchestrator reads)
extract_search_params_regex(text) ==
    CASE text = <<"I"," ","w","a","n","t"," ","a"," ","p","l","a","c","e"," ","i","n"," ","T","o","k","y","o"," ","f","o","r"," ","2"," ","p","e","o","p","l","e"," ","u","n","d","e","r"," ","$","1","5","0"," ","f","o","r"," ","m","y"," ","t","r","i","p"," ","n","e","x","t">> ->
            Query(Some(<<"T","o","k","y","o">>), Some(2), None, Some(150), None, None, None, None)
      [] text = <<"T","o","k","y","o">> ->
            Query(Some(<<"T","o","k","y","o">>), None, None, None, None, None, None, None)
      [] text = <<"W","e"," ","a","r","e"," ","p","l","a","n","n","i","n","g"," ","a"," ","t","r","i","p"," ","f","o","r"," ","3"," ","p","e","o","p","l","e"," ","w","i","t","h"," ","a"," ","b","u","d","g","e","t"," ","o","f"," ","1","2","0"," ","b","u","c","k","s">> ->
            Query(None, Some(3), Some(90), Some(150), None, None, None, None)
      [] text = <<"W","e"," ","a","r","e"," ","p","l","a","n","n","i","n","g"," ","a"," ","t","r","i","p"," ","w","i","t","h"," ","0"," ","g","u","e","s","t","s"," ","a","n","d"," ","w","e"," ","p","a","y"," ","u","p"," ","t","o"," ","9","0"," ","b","u","c","k","s",".">> ->
            Query(None, Some(0), None, Some(90), None, None, None, None)
      [] text = <<"S","o","m","e","w","h","e","r","e"," ","w","a","r","m"," ","a","n","d"," ","s","u","n","n","y"," ","f","o","r"," ","4"," ","a","d","u","l","t","s",","," ","n","o","t","h","i","n","g"," ","t","o","o"," ","e","x","p","e","n","s","i","v","e"," ","o","k">> ->
            Query(None, Some(4), None, None, None, None, None, None)
      [] OTHER -> Query(None, None, None, None, None, None, None, None)

ExtractTexts ==
    { <<"I"," ","w","a","n","t"," ","a"," ","p","l","a","c","e"," ","i","n"," ","T","o","k","y","o"," ","f","o","r"," ","2"," ","p","e","o","p","l","e"," ","u","n","d","e","r"," ","$","1","5","0"," ","f","o","r"," ","m","y"," ","t","r","i","p"," ","n","e","x","t">>,
      <<"T","o","k","y","o">>,
      <<"w","e"," ","n","e","e","d"," ","a","c","c","o","m","m","o","d","a","t","i","o","n">>,
      <<"W","e"," ","a","r","e"," ","p","l","a","n","n","i","n","g"," ","a"," ","t","r","i","p"," ","f","o","r"," ","3"," ","p","e","o","p","l","e"," ","w","i","t","h"," ","a"," ","b","u","d","g","e","t"," ","o","f"," ","1","2","0"," ","b","u","c","k","s">>,
      <<"W","e"," ","a","r","e"," ","p","l","a","n","n","i","n","g"," ","a"," ","t","r","i","p"," ","w","i","t","h"," ","0"," ","g","u","e","s","t","s"," ","a","n","d"," ","w","e"," ","p","a","y"," ","u","p"," ","t","o"," ","9","0"," ","b","u","c","k","s",".">>,
      <<"S","o","m","e","w","h","e","r","e"," ","w","a","r","m"," ","a","n","d"," ","s","u","n","n","y"," ","f","o","r"," ","4"," ","a","d","u","l","t","s",","," ","n","o","t","h","i","n","g"," ","t","o","o"," ","e","x","p","e","n","s","i","v","e"," ","o","k">>,
      <<"H","e","l","p"," ","m","e"," ","a","b","o","u","t"," ","b","o","o","k","i","n","g"," ","s","o","m","e","t","h","i","n","g"," ","g","o","o","d"," ","f","o","r"," ","e","v","e","r","y","o","n","e","!">>,
      <<"H","e","l","p"," ","m","e"," ","a","b","o","u","t"," ","b","o","o","k","i","n","g"," ","s","o","m","e","t","h","i","n","g"," ","g","o","o","d"," ","f","o","r"," ","e","v","e","r","y","o","n","e","!","!">> }

\* lines 172-193: what the completion call can do.  It raises, or its
\* response has no choice, or no content, or the content is empty, is not
\* JSON, is a JSON array or null, or is a JSON object (absent keys and
\* null read as None).
LlmFailures ==
    {"raises", "no_choices", "no_content", "empty", "not_json", "json_array",
     "json_null"}

LlmResponses ==
    {[kind |-> k] : k \in LlmFailures}
    \cup {[kind |-> "json_object",
           data |-> Query(l, g, lo, hi, d[1], d[2], pt, None)] :
            l \in {None, Some(<<>>), Some(<<"L","i","s","b","o","n">>)},
            g \in {None, Some(0), Some(5)},
            lo \in {None, Some(100)},
            hi \in {None, Some(200)},
            d \in {<<None, None>>, <<Some(<<"2","0","2","6","-","0","7","-","0","1">>), Some(<<"2","0","2","6","-","0","7","-","0","8">>)>>},
            pt \in {None, Some(<<"v","i","l","l","a">>)}}

\* the exception raised in the try block of lines 169-196
LlmException(r) ==
    CASE r.kind = "raises" -> "APIError"
      [] r.kind = "no_choices" -> "IndexError"
      [] r.kind \in {"no_content", "json_array", "json_null"} -> "AttributeError"
      [] r.kind \in {"empty", "not_json"} -> "JSONDecodeError"
      [] OTHER -> "none"

\* Mutant: only the JSON handler is there
OnlyJsonErrorsCaught(e) == e = "JSONDecodeError"

\* lines 198-208: except json.JSONDecodeError, then except Exception
LlmExceptionCaught(e) == e = "JSONDecodeError" \/ e # "none"

\* lines 127-208
extract_search_params_with_llm(text, r) ==
    LET e == LlmException(r)
    IN  IF e = "none"
        THEN [raised |-> FALSE, params |-> r.data]
        ELSE IF LlmExceptionCaught(e)
        THEN [raised |-> FALSE, params |-> extract_search_params_regex(text)]
        ELSE [raised |-> TRUE, params |-> <<>>]

\* Mutant: the fallback is used when any of the three conditions holds
needs_llm_any(text, p) ==
    \/ ~TruthySeq(p.location)
    \/ Len(text) > 50
    \/ AnyIn(Lower(text), {<<"a","c","c","o","m","m","o","d","a","t","i","o","n">>, <<"t","r","a","v","e","l">>, <<"t","r","i","p">>, <<"v","i","s","i","t">>,
                           <<"b","o","o","k","i","n","g">>, <<"s","t","a","y">>})

\* lines 415-421
needs_llm(text, p) ==
    /\ ~TruthySeq(p.location)
    /\ Len(text) > 50
    /\ AnyIn(Lower(text), {<<"a","c","c","o","m","m","o","d","a","t","i","o","n">>, <<"t","r","a","v","e","l">>, <<"t","r","i","p">>, <<"v","i","s","i","t">>,
                           <<"b","o","o","k","i","n","g">>, <<"s","t","a","y">>})

\* Mutant: the fallback's fields win
MergePreferLlm(p, llm) ==
    [p EXCEPT !.location = IF TruthySeq(llm.location) THEN llm.location ELSE @,
              !.checkin = IF TruthySeq(llm.checkin) THEN llm.checkin ELSE @,
              !.checkout = IF TruthySeq(llm.checkout) THEN llm.checkout ELSE @,
              !.guests = IF TruthyInt(llm.guests) THEN llm.guests ELSE @,
              !.min_price = IF TruthyInt(llm.min_price) THEN llm.min_price ELSE @,
              !.max_price = IF TruthyInt(llm.max_price) THEN llm.max_price ELSE @]

\* lines 427-438
Merge(p, llm) ==
    [p EXCEPT
        !.location = IF TruthySeq(llm.location) /\ ~TruthySeq(@)
                     THEN llm.location ELSE @,
        !.checkin = IF TruthySeq(llm.checkin) /\ ~TruthySeq(@)
                    THEN llm.checkin ELSE @,
        !.checkout = IF TruthySeq(llm.checkout) /\ ~TruthySeq(@)
                     THEN llm.checkout ELSE @,
        !.guests = IF TruthyInt(llm.guests) /\ ~TruthyInt(@)
                   THEN llm.guests ELSE @,
        !.min_price = IF TruthyInt(llm.min_price) /\ ~TruthyInt(@)
                      THEN llm.min_price ELSE @,
        !.max_price = IF TruthyInt(llm.max_price) /\ ~TruthyInt(@)
                      THEN llm.max_price ELSE @]

InitExtract ==
    /\ ScrapeIdle
    /\ ValidateIdle
    /\ EvalIdle
    /\ CallsIdle
    /\ x_pc = "regex"
    /\ conversation_text \in ExtractTexts
    /\ x_params = <<>>
    /\ llm_response = [kind |-> "none"]
    /\ llm_params = <<>>
    /\ x_raised = FALSE
    /\ m_pc = "idle"
    /\ m_text = <<>>
    /\ m_today = <<>>
    /\ m_out = <<>>

\* lines 411-421 and 441-442: the deterministic pass; without needs_llm its
\* result is returned
RegexPass ==
    /\ x_pc = "regex"
    /\ LET p == extract_search_params_regex(conversation_text)
       IN  /\ x_params' = p
           /\ x_pc' = IF needs_llm(conversation_text, p) THEN "llm" ELSE "done"
    /\ UNCHANGED <<conversation_text, llm_response, llm_params, x_raised, match_vars>>

\* lines 423-438 and 444: the fallback and the merge of its fields
LlmPass(r) ==
    /\ x_pc = "llm"
    /\ llm_response' = r
    /\ LET res == extract_search_params_with_llm(conversation_text, r)
       IN  IF res.raised
           THEN /\ x_raised' = TRUE
                /\ UNCHANGED <<x_params, llm_params>>
           ELSE /\ llm_params' = res.params
                /\ x_params' = Merge(x_params, res.params)
                /\ UNCHANGED x_raised
    /\ x_pc' = "done"
    /\ UNCHANGED <<conversation_text, match_vars>>

NextExtract ==
    /\ RegexPass \/ \E r \in LlmResponses : LlmPass(r)
    /\ UNCHANGED <<scrape_vars, validate_vars, eval_vars, calls>>

SpecExtract == InitExtract /\ [][NextExtract]_vars

-----------------------------------------------------------------------------
(* The regular expressions of extractors.py and main.py.  A pattern is a   *)
(* sequence of items; matching is the backtracking search of Python's re   *)
(* module with re.IGNORECASE: every way a pattern matches is listed in the *)
(* order in which the matcher tries them, and the first one is the match.  *)

\* a literal text
Lit(text) == [t |-> "lit", s |-> text]
\* one character of a class: \d, \s, [a-zA-Z], [,.]
Cls(chars) == [t |-> "cls", c |-> chars]
\* . (any character but a newline)
Dot == [t |-> "dot"]
\* (?:a|b|c), every alternative a pattern
Alt(alts) == [t |-> "alt", a |-> alts]
\* p{lo,hi}, greedy; p? is Rep(p, 0, 1)
Rep(p, lo, hi) == [t |-> "rep", p |-> p, lo |-> lo, hi |-> Some(hi), lazy |-> FALSE]
\* p{lo,hi}?, lazy
Lazy(p, lo, hi) == [t |-> "rep", p |-> p, lo |-> lo, hi |-> Some(hi), lazy |-> TRUE]
\* p{lo,}, greedy, without an upper limit; p* is RepMany(p, 0), p+ is RepMany(p, 1)
RepMany(p, lo) == [t |-> "rep", p |-> p, lo |-> lo, hi |-> None, lazy |-> FALSE]
\* p{lo,}?, lazy
LazyMany(p, lo) == [t |-> "rep", p |-> p, lo |-> lo, hi |-> None, lazy |-> TRUE]
\* the capturing group number k
Grp(k, p) == [t |-> "grp", k |-> k, p |-> p]
\* $
EndOfText == [t |-> "end"]
\* \b
WordBoundary == [t |-> "wb"]

\* p?
Opt(p) == Rep(p, 0, 1)
\* (?:word|word|word)
Words(texts) == Alt([k \in DOMAIN texts |-> <<Lit(texts[k])>>])

\* a regular expression: its text in the source, the number of its
\* capturing groups, and the items it stands for
Re(src, groups, items) == [src |-> src, groups |-> groups, p |-> items]

Letters == LowerSet \cup UpperSet
Spaces == {" ", "LF", "TAB"}
\* \s*, \s+, \d+, \d{1,2}
SpaceStar == RepMany(<<Cls(Spaces)>>, 0)
SpacePlus == RepMany(<<Cls(Spaces)>>, 1)
DigitPlus == RepMany(<<Cls(DigitSet)>>, 1)
OneOrTwoDigits == Rep(<<Cls(DigitSet)>>, 1, 2)
IsWordChar(c) == IsAlpha(c) \/ IsDigit(c) \/ c = "_"

\* no group has taken part in the match
NoGroups == [k \in 1..4 |-> <<>>]

RECURSIVE ReSeq(_, _, _, _), ReThen(_, _, _), ReAlt(_, _, _, _), ReRep(_, _, _, _, _), ReMore(_, _, _, _)

\* one item x at position i of s
ReItem(x, s, i, g) ==
    CASE x.t = "lit" ->
            IF /\ i + Len(x.s) - 1 <= Len(s)
               /\ \A j \in 1..Len(x.s) : LowerChar(s[i + j - 1]) = LowerChar(x.s[j])
            THEN << [e |-> i + Len(x.s), g |-> g] >> ELSE <<>>
      [] x.t = "cls" ->
            IF i <= Len(s) /\ (LowerChar(s[i]) \in x.c \/ UpperChar(s[i]) \in x.c)
            THEN << [e |-> i + 1, g |-> g] >> ELSE <<>>
      [] x.t = "dot" ->
            IF i <= Len(s) /\ s[i] # "LF" THEN << [e |-> i + 1, g |-> g] >> ELSE <<>>
      [] x.t = "alt" -> ReAlt(x.a, s, i, g)
      [] x.t = "rep" -> ReRep(x, s, i, g, 0)
      [] x.t = "grp" ->
            LET R == ReSeq(x.p, s, i, g)
            IN  [n \in 1..Len(R) |->
                    [e |-> R[n].e, g |-> [R[n].g EXCEPT ![x.k] = <<i, R[n].e>>]]]
      [] x.t = "end" ->
            IF i = Len(s) + 1 \/ (i = Len(s) /\ s[i] = "LF")
            THEN << [e |-> i, g |-> g] >> ELSE <<>>
      [] x.t = "wb" ->
            IF IsWordChar(At(s, i - 1)) # IsWordChar(At(s, i))
            THEN << [e |-> i, g |-> g] >> ELSE <<>>

\* the items of p one after the other, from position i
ReSeq(p, s, i, g) ==
    IF p = <<>> THEN << [e |-> i, g |-> g] >>
    ELSE ReThen(ReItem(p[1], s, i, g), Tail(p), s)

\* the rest p of a pattern after every way R its first item matched
ReThen(R, p, s) ==
    IF R = <<>> THEN <<>>
    ELSE ReSeq(p, s, R[1].e, R[1].g) \o ReThen(Tail(R), p, s)

\* the alternatives in the order they are written
ReAlt(a, s, i, g) ==
    IF a = <<>> THEN <<>>
    ELSE ReSeq(a[1], s, i, g) \o ReAlt(Tail(a), s, i, g)

\* a repetition that has matched n times: a greedy one tries one more
\* first, a lazy one tries to stop first
ReRep(x, s, i, g, n) ==
    LET more == IF x.hi = None \/ n < x.hi[1] THEN ReMore(ReSeq(x.p, s, i, g), x, s, n + 1) ELSE <<>>
        stop == IF n >= x.lo THEN << [e |-> i, g |-> g] >> ELSE <<>>
    IN  IF x.lazy THEN stop \o more ELSE more \o stop

ReMore(R, x, s, n) ==
    IF R = <<>> THEN <<>>
    ELSE ReRep(x, s, R[1].e, R[1].g, n) \o ReMore(Tail(R), x, s, n)

ReNone == [found |-> FALSE, start |-> 0, e |-> 0, g |-> NoGroups]

\* re.search from position from on: the leftmost position where p matches
ReSearchFrom(p, s, from) ==
    LET starts == {i \in from..(Len(s) + 1) : ReSeq(p, s, i, NoGroups) # <<>>}
    IN  IF starts = {} THEN ReNone
        ELSE LET i == FirstIndex(starts)
                 r == ReSeq(p, s, i, NoGroups)[1]
             IN  [found |-> TRUE, start |-> i, e |-> r.e, g |-> r.g]

\* re.search(pattern, text, re.IGNORECASE)
ReSearch(p, s) == ReSearchFrom(p, s, 1)

\* re.finditer: the matches from left to right, none overlapping another
RECURSIVE ReFindIter(_, _, _)
ReFindIter(p, s, from) ==
    LET m == ReSearchFrom(p, s, from)
    IN  IF ~m.found THEN <<>>
        ELSE <<m>> \o ReFindIter(p, s, IF m.e = m.start THEN m.e + 1 ELSE m.e)

\* match.group(k): None when the group took no part in the match
Group(s, m, k) == IF m.g[k] = <<>> THEN None ELSE Some(SubSeq(s, m.g[k][1], m.g[k][2] - 1))
\* match.group(0)
Group0(s, m) == SubSeq(s, m.start, m.e - 1)
\* match.lastindex: 0 stands for None
LastIndex(m) == IF \A k \in 1..4 : m.g[k] = <<>> THEN 0 ELSE CHOOSE k \in 1..4 : m.g[k] # <<>> /\ \A j \in (k+1)..4 : m.g[j] = <<>>
\* int(text) of a run of digits
ToInt(text) == ParseNat(text, 1, Len(text) + 1)

\* extractors.py lines 23-36
date_patterns ==
    << \* line 25: (\d{1,2})/(\d{1,2})\s*-\s*(\d{1,2})/(\d{1,2})
       Re(<<"(","BSL","d","{","1",",","2","}",")","/","(","BSL","d","{","1",",","2","}",")","BSL","s","*","-","BSL","s","*","(","BSL","d","{","1",",","2","}",")","/","(","BSL","d","{","1",",","2","}",")">>, 4,
          <<Grp(1, <<OneOrTwoDigits>>),
              Lit(<<"/">>),
              Grp(2, <<OneOrTwoDigits>>),
              SpaceStar,
              Lit(<<"-">>),
              SpaceStar,
              Grp(3, <<OneOrTwoDigits>>),
              Lit(<<"/">>),
              Grp(4, <<OneOrTwoDigits>>)>>),
       \* line 27: (January|February|March|April|May|June|July|August|September|October|November|December|Jan|Feb|Mar|Apr|May|Jun|Jul|Aug|Sep|Oct|Nov|Dec)\s+(\d{1,2})\s*-\s*(?:(January|February|March|April|May|June|July|August|September|October|November|December|Jan|Feb|Mar|Apr|May|Jun|Jul|Aug|Sep|Oct|Nov|Dec)\s+)?(\d{1,2})
       Re(<<"(","J","a","n","u","a","r","y","|","F","e","b","r","u","a","r","y","|","M","a","r","c","h","|","A","p","r","i","l","|","M","a","y","|","J","u","n","e","|","J","u","l","y","|","A","u","g","u","s","t","|","S","e","p","t","e","m","b","e","r","|","O","c","t","o","b","e","r","|","N","o","v","e","m","b","e","r","|","D","e","c","e","m","b","e","r","|","J","a","n","|","F","e","b","|","M","a","r","|","A","p","r","|","M","a","y","|","J","u","n","|","J","u","l","|","A","u","g","|","S","e","p","|","O","c","t","|","N","o","v","|","D","e","c",")","BSL","s","+","(","BSL","d","{","1",",","2","}",")","BSL","s","*","-","BSL","s","*","(","?",":","(","J","a","n","u","a","r","y","|","F","e","b","r","u","a","r","y","|","M","a","r","c","h","|","A","p","r","i","l","|","M","a","y","|","J","u","n","e","|","J","u","l","y","|","A","u","g","u","s","t","|","S","e","p","t","e","m","b","e","r","|","O","c","t","o","b","e","r","|","N","o","v","e","m","b","e","r","|","D","e","c","e","m","b","e","r","|","J","a","n","|","F","e","b","|","M","a","r","|","A","p","r","|","M","a","y","|","J","u","n","|","J","u","l","|","A","u","g","|","S","e","p","|","O","c","t","|","N","o","v","|","D","e","c",")","BSL","s","+",")","?","(","BSL","d","{","1",",","2","}",")">>, 4,
          <<Grp(1, <<Words(<<<<"J","a","n","u","a","r","y">>, <<"F","e","b","r","u","a","r","y">>, <<"M","a","r","c","h">>, <<"A","p","r","i","l">>,
                               <<"M","a","y">>, <<"J","u","n","e">>, <<"J","u","l","y">>, <<"A","u","g","u","s","t">>,
                               <<"S","e","p","t","e","m","b","e","r">>, <<"O","c","t","o","b","e","r">>, <<"N","o","v","e","m","b","e","r">>,
                               <<"D","e","c","e","m","b","e","r">>, <<"J","a","n">>, <<"F","e","b">>, <<"M","a","r">>, <<"A","p","r">>,
                               <<"M","a","y">>, <<"J","u","n">>, <<"J","u","l">>, <<"A","u","g">>, <<"S","e","p">>, <<"O","c","t">>,
                               <<"N","o","v">>, <<"D","e","c">>>>)>>),
              SpacePlus,
              Grp(2, <<OneOrTwoDigits>>),
              SpaceStar,
              Lit(<<"-">>),
              SpaceStar,
              Opt(<<Grp(3, <<Words(<<<<"J","a","n","u","a","r","y">>, <<"F","e","b","r","u","a","r","y">>, <<"M","a","r","c","h">>,
                                     <<"A","p","r","i","l">>, <<"M","a","y">>, <<"J","u","n","e">>, <<"J","u","l","y">>,
                                     <<"A","u","g","u","s","t">>, <<"S","e","p","t","e","m","b","e","r">>, <<"O","c","t","o","b","e","r">>,
                                     <<"N","o","v","e","m","b","e","r">>, <<"D","e","c","e","m","b","e","r">>, <<"J","a","n">>, <<"F","e","b">>,
                                     <<"M","a","r">>, <<"A","p","r">>, <<"M","a","y">>, <<"J","u","n">>, <<"J","u","l">>,
                                     <<"A","u","g">>, <<"S","e","p">>, <<"O","c","t">>, <<"N","o","v">>, <<"D","e","c">>>>)>>),
                    SpacePlus>>),
              Grp(4, <<OneOrTwoDigits>>)>>),
       \* line 29: (\d{1,2})\s+(January|February|March|April|May|June|July|August|September|October|November|December|Jan|Feb|Mar|Apr|May|Jun|Jul|Aug|Sep|Oct|Nov|Dec)\s*-\s*(\d{1,2})\s+(January|February|March|April|May|June|July|August|September|October|November|December|Jan|Feb|Mar|Apr|May|Jun|Jul|Aug|Sep|Oct|Nov|Dec)
       Re(<<"(","BSL","d","{","1",",","2","}",")","BSL","s","+","(","J","a","n","u","a","r","y","|","F","e","b","r","u","a","r","y","|","M","a","r","c","h","|","A","p","r","i","l","|","M","a","y","|","J","u","n","e","|","J","u","l","y","|","A","u","g","u","s","t","|","S","e","p","t","e","m","b","e","r","|","O","c","t","o","b","e","r","|","N","o","v","e","m","b","e","r","|","D","e","c","e","m","b","e","r","|","J","a","n","|","F","e","b","|","M","a","r","|","A","p","r","|","M","a","y","|","J","u","n","|","J","u","l","|","A","u","g","|","S","e","p","|","O","c","t","|","N","o","v","|","D","e","c",")","BSL","s","*","-","BSL","s","*","(","BSL","d","{","1",",","2","}",")","BSL","s","+","(","J","a","n","u","a","r","y","|","F","e","b","r","u","a","r","y","|","M","a","r","c","h","|","A","p","r","i","l","|","M","a","y","|","J","u","n","e","|","J","u","l","y","|","A","u","g","u","s","t","|","S","e","p","t","e","m","b","e","r","|","O","c","t","o","b","e","r","|","N","o","v","e","m","b","e","r","|","D","e","c","e","m","b","e","r","|","J","a","n","|","F","e","b","|","M","a","r","|","A","p","r","|","M","a","y","|","J","u","n","|","J","u","l","|","A","u","g","|","S","e","p","|","O","c","t","|","N","o","v","|","D","e","c",")">>, 4,
          <<Grp(1, <<OneOrTwoDigits>>),
              SpacePlus,
              Grp(2, <<Words(<<<<"J","a","n","u","a","r","y">>, <<"F","e","b","r","u","a","r","y">>, <<"M","a","r","c","h">>, <<"A","p","r","i","l">>,
                               <<"M","a","y">>, <<"J","u","n","e">>, <<"J","u","l","y">>, <<"A","u","g","u","s","t">>,
                               <<"S","e","p","t","e","m","b","e","r">>, <<"O","c","t","o","b","e","r">>, <<"N","o","v","e","m","b","e","r">>,
                               <<"D","e","c","e","m","b","e","r">>, <<"J","a","n">>, <<"F","e","b">>, <<"M","a","r">>, <<"A","p","r">>,
                               <<"M","a","y">>, <<"J","u","n">>, <<"J","u","l">>, <<"A","u","g">>, <<"S","e","p">>, <<"O","c","t">>,
                               <<"N","o","v">>, <<"D","e","c">>>>)>>),
              SpaceStar,
              Lit(<<"-">>),
              SpaceStar,
              Grp(3, <<OneOrTwoDigits>>),
              SpacePlus,
              Grp(4, <<Words(<<<<"J","a","n","u","a","r","y">>, <<"F","e","b","r","u","a","r","y">>, <<"M","a","r","c","h">>, <<"A","p","r","i","l">>,
                               <<"M","a","y">>, <<"J","u","n","e">>, <<"J","u","l","y">>, <<"A","u","g","u","s","t">>,
                               <<"S","e","p","t","e","m","b","e","r">>, <<"O","c","t","o","b","e","r">>, <<"N","o","v","e","m","b","e","r">>,
                               <<"D","e","c","e","m","b","e","r">>, <<"J","a","n">>, <<"F","e","b">>, <<"M","a","r">>, <<"A","p","r">>,
                               <<"M","a","y">>, <<"J","u","n">>, <<"J","u","l">>, <<"A","u","g">>, <<"S","e","p">>, <<"O","c","t">>,
                               <<"N","o","v">>, <<"D","e","c">>>>)>>)>>),
       \* line 31: (\d{1,2})-(\d{1,2})\s*(?:to|through|-)\s*(\d{1,2})-(\d{1,2})
       Re(<<"(","BSL","d","{","1",",","2","}",")","-","(","BSL","d","{","1",",","2","}",")","BSL","s","*","(","?",":","t","o","|","t","h","r","o","u","g","h","|","-",")","BSL","s","*","(","BSL","d","{","1",",","2","}",")","-","(","BSL","d","{","1",",","2","}",")">>, 4,
          <<Grp(1, <<OneOrTwoDigits>>),
              Lit(<<"-">>),
              Grp(2, <<OneOrTwoDigits>>),
              SpaceStar,
              Words(<<<<"t","o">>, <<"t","h","r","o","u","g","h">>, <<"-">>>>),
              SpaceStar,
              Grp(3, <<OneOrTwoDigits>>),
              Lit(<<"-">>),
              Grp(4, <<OneOrTwoDigits>>)>>),
       \* line 33: (?:check.?in|arrive|arrival|start).*?(\d{1,2})/(\d{1,2})|(\d{1,2})/(\d{1,2}).*?(?:check.?in|arrive|arrival|start)
       Re(<<"(","?",":","c","h","e","c","k",".","?","i","n","|","a","r","r","i","v","e","|","a","r","r","i","v","a","l","|","s","t","a","r","t",")",".","*","?","(","BSL","d","{","1",",","2","}",")","/","(","BSL","d","{","1",",","2","}",")","|","(","BSL","d","{","1",",","2","}",")","/","(","BSL","d","{","1",",","2","}",")",".","*","?","(","?",":","c","h","e","c","k",".","?","i","n","|","a","r","r","i","v","e","|","a","r","r","i","v","a","l","|","s","t","a","r","t",")">>, 4,
          <<Alt(<<<<Alt(<<<<Lit(<<"c","h","e","c","k">>), Opt(<<Dot>>), Lit(<<"i","n">>)>>,
                            <<Lit(<<"a","r","r","i","v","e">>)>>,
                            <<Lit(<<"a","r","r","i","v","a","l">>)>>,
                            <<Lit(<<"s","t","a","r","t">>)>>>>),
                      LazyMany(<<Dot>>, 0),
                      Grp(1, <<OneOrTwoDigits>>),
                      Lit(<<"/">>),
                      Grp(2, <<OneOrTwoDigits>>)>>,
                    <<Grp(3, <<OneOrTwoDigits>>),
                      Lit(<<"/">>),
                      Grp(4, <<OneOrTwoDigits>>),
                      LazyMany(<<Dot>>, 0),
                      Alt(<<<<Lit(<<"c","h","e","c","k">>), Opt(<<Dot>>), Lit(<<"i","n">>)>>,
                            <<Lit(<<"a","r","r","i","v","e">>)>>,
                            <<Lit(<<"a","r","r","i","v","a","l">>)>>,
                            <<Lit(<<"s","t","a","r","t">>)>>>>)>>>>)>>),
       \* line 34: (?:check.?out|leave|departure|end).*?(\d{1,2})/(\d{1,2})|(\d{1,2})/(\d{1,2}).*?(?:check.?out|leave|departure|end)
       Re(<<"(","?",":","c","h","e","c","k",".","?","o","u","t","|","l","e","a","v","e","|","d","e","p","a","r","t","u","r","e","|","e","n","d",")",".","*","?","(","BSL","d","{","1",",","2","}",")","/","(","BSL","d","{","1",",","2","}",")","|","(","BSL","d","{","1",",","2","}",")","/","(","BSL","d","{","1",",","2","}",")",".","*","?","(","?",":","c","h","e","c","k",".","?","o","u","t","|","l","e","a","v","e","|","d","e","p","a","r","t","u","r","e","|","e","n","d",")">>, 4,
          <<Alt(<<<<Alt(<<<<Lit(<<"c","h","e","c","k">>), Opt(<<Dot>>), Lit(<<"o","u","t">>)>>,
                            <<Lit(<<"l","e","a","v","e">>)>>,
                            <<Lit(<<"d","e","p","a","r","t","u","r","e">>)>>,
                            <<Lit(<<"e","n","d">>)>>>>),
                      LazyMany(<<Dot>>, 0),
                      Grp(1, <<OneOrTwoDigits>>),
                      Lit(<<"/">>),
                      Grp(2, <<OneOrTwoDigits>>)>>,
                    <<Grp(3, <<OneOrTwoDigits>>),
                      Lit(<<"/">>),
                      Grp(4, <<OneOrTwoDigits>>),
                      LazyMany(<<Dot>>, 0),
                      Alt(<<<<Lit(<<"c","h","e","c","k">>), Opt(<<Dot>>), Lit(<<"o","u","t">>)>>,
                            <<Lit(<<"l","e","a","v","e">>)>>,
                            <<Lit(<<"d","e","p","a","r","t","u","r","e">>)>>,
                            <<Lit(<<"e","n","d">>)>>>>)>>>>)>>) >>

\* extractors.py lines 247-252
location_patterns ==
    << \* line 249: (?:in|to|at|visit|stay in|going to|traveling to|fly to|book in|rent.*in)\s+([A-Z][a-zA-Z]{2,}(?:\s+[A-Z][a-zA-Z]+)*?)(?:\s+in\s+\d|\s+for\s+\d|\s+with\s+\d|\s*[,.]|\s*$)
       Re(<<"(","?",":","i","n","|","t","o","|","a","t","|","v","i","s","i","t","|","s","t","a","y"," ","i","n","|","g","o","i","n","g"," ","t","o","|","t","r","a","v","e","l","i","n","g"," ","t","o","|","f","l","y"," ","t","o","|","b","o","o","k"," ","i","n","|","r","e","n","t",".","*","i","n",")","BSL","s","+","(","[","A","-","Z","]","[","a","-","z","A","-","Z","]","{","2",",","}","(","?",":","BSL","s","+","[","A","-","Z","]","[","a","-","z","A","-","Z","]","+",")","*","?",")","(","?",":","BSL","s","+","i","n","BSL","s","+","BSL","d","|","BSL","s","+","f","o","r","BSL","s","+","BSL","d","|","BSL","s","+","w","i","t","h","BSL","s","+","BSL","d","|","BSL","s","*","[",",",".","]","|","BSL","s","*","$",")">>, 1,
          <<Alt(<<<<Lit(<<"i","n">>)>>,
                    <<Lit(<<"t","o">>)>>,
                    <<Lit(<<"a","t">>)>>,
                    <<Lit(<<"v","i","s","i","t">>)>>,
                    <<Lit(<<"s","t","a","y"," ","i","n">>)>>,
                    <<Lit(<<"g","o","i","n","g"," ","t","o">>)>>,
                    <<Lit(<<"t","r","a","v","e","l","i","n","g"," ","t","o">>)>>,
                    <<Lit(<<"f","l","y"," ","t","o">>)>>,
                    <<Lit(<<"b","o","o","k"," ","i","n">>)>>,
                    <<Lit(<<"r","e","n","t">>), RepMany(<<Dot>>, 0), Lit(<<"i","n">>)>>>>),
              SpacePlus,
              Grp(1, <<Cls(UpperSet),
                       RepMany(<<Cls(Letters)>>, 2),
                       LazyMany(<<SpacePlus,
                                  Cls(UpperSet),
                                  RepMany(<<Cls(Letters)>>, 1)>>, 0)>>),
              Alt(<<<<SpacePlus, Lit(<<"i","n">>), SpacePlus, Cls(DigitSet)>>,
                    <<SpacePlus, Lit(<<"f","o","r">>), SpacePlus, Cls(DigitSet)>>,
                    <<SpacePlus, Lit(<<"w","i","t","h">>), SpacePlus, Cls(DigitSet)>>,
                    <<SpaceStar, Cls({",", "."})>>,
                    <<SpaceStar, EndOfText>>>>)>>),
       \* line 251: (?:place|area|city|town)\s+(?:like|in|near)\s+([A-Z][a-zA-Z]{2,}(?:\s+[A-Z][a-zA-Z]+)*)
       Re(<<"(","?",":","p","l","a","c","e","|","a","r","e","a","|","c","i","t","y","|","t","o","w","n",")","BSL","s","+","(","?",":","l","i","k","e","|","i","n","|","n","e","a","r",")","BSL","s","+","(","[","A","-","Z","]","[","a","-","z","A","-","Z","]","{","2",",","}","(","?",":","BSL","s","+","[","A","-","Z","]","[","a","-","z","A","-","Z","]","+",")","*",")">>, 1,
          <<Words(<<<<"p","l","a","c","e">>, <<"a","r","e","a">>, <<"c","i","t","y">>, <<"t","o","w","n">>>>),
              SpacePlus,
              Words(<<<<"l","i","k","e">>, <<"i","n">>, <<"n","e","a","r">>>>),
              SpacePlus,
              Grp(1, <<Cls(UpperSet),
                       RepMany(<<Cls(Letters)>>, 2),
                       RepMany(<<SpacePlus,
                                  Cls(UpperSet),
                                  RepMany(<<Cls(Letters)>>, 1)>>, 0)>>)>>) >>

\* extractors.py lines 313-324
budget_patterns ==
    << \* line 314: (\d+)\s*(?:usd|USD|dollars?)\s*(?:max|maximum|per\s*day\s*max)
       Re(<<"(","BSL","d","+",")","BSL","s","*","(","?",":","u","s","d","|","U","S","D","|","d","o","l","l","a","r","s","?",")","BSL","s","*","(","?",":","m","a","x","|","m","a","x","i","m","u","m","|","p","e","r","BSL","s","*","d","a","y","BSL","s","*","m","a","x",")">>, 1,
          <<Grp(1, <<DigitPlus>>),
              SpaceStar,
              Alt(<<<<Lit(<<"u","s","d">>)>>,
                    <<Lit(<<"U","S","D">>)>>,
                    <<Lit(<<"d","o","l","l","a","r">>), Opt(<<Lit(<<"s">>)>>)>>>>),
              SpaceStar,
              Alt(<<<<Lit(<<"m","a","x">>)>>,
                    <<Lit(<<"m","a","x","i","m","u","m">>)>>,
                    <<Lit(<<"p","e","r">>),
                      SpaceStar,
                      Lit(<<"d","a","y">>),
                      SpaceStar,
                      Lit(<<"m","a","x">>)>>>>)>>),
       \* line 315: (\d+)\s*(?:per\s*day|daily|nightly?)\s*(?:max|maximum)
       Re(<<"(","BSL","d","+",")","BSL","s","*","(","?",":","p","e","r","BSL","s","*","d","a","y","|","d","a","i","l","y","|","n","i","g","h","t","l","y","?",")","BSL","s","*","(","?",":","m","a","x","|","m","a","x","i","m","u","m",")">>, 1,
          <<Grp(1, <<DigitPlus>>),
              SpaceStar,
              Alt(<<<<Lit(<<"p","e","r">>), SpaceStar, Lit(<<"d","a","y">>)>>,
                    <<Lit(<<"d","a","i","l","y">>)>>,
                    <<Lit(<<"n","i","g","h","t","l">>), Opt(<<Lit(<<"y">>)>>)>>>>),
              SpaceStar,
              Words(<<<<"m","a","x">>, <<"m","a","x","i","m","u","m">>>>)>>),
       \* line 316: max(?:imum)?\s*(?:of\s*)?(?:usd\s*)?(?:\$)?(\d+)
       Re(<<"m","a","x","(","?",":","i","m","u","m",")","?","BSL","s","*","(","?",":","o","f","BSL","s","*",")","?","(","?",":","u","s","d","BSL","s","*",")","?","(","?",":","BSL","$",")","?","(","BSL","d","+",")">>, 1,
          <<Lit(<<"m","a","x">>),
              Opt(<<Lit(<<"i","m","u","m">>)>>),
              SpaceStar,
              Opt(<<Lit(<<"o","f">>), SpaceStar>>),
              Opt(<<Lit(<<"u","s","d">>), SpaceStar>>),
              Opt(<<Lit(<<"$">>)>>),
              Grp(1, <<DigitPlus>>)>>),
       \* line 317: under\s*(?:\$)?(\d+)
       Re(<<"u","n","d","e","r","BSL","s","*","(","?",":","BSL","$",")","?","(","BSL","d","+",")">>, 1,
          <<Lit(<<"u","n","d","e","r">>),
              SpaceStar,
              Opt(<<Lit(<<"$">>)>>),
              Grp(1, <<DigitPlus>>)>>),
       \* line 318: below\s*(?:\$)?(\d+)
       Re(<<"b","e","l","o","w","BSL","s","*","(","?",":","BSL","$",")","?","(","BSL","d","+",")">>, 1,
          <<Lit(<<"b","e","l","o","w">>),
              SpaceStar,
              Opt(<<Lit(<<"$">>)>>),
              Grp(1, <<DigitPlus>>)>>),
       \* line 319: up\s*to\s*(?:\$)?(\d+)
       Re(<<"u","p","BSL","s","*","t","o","BSL","s","*","(","?",":","BSL","$",")","?","(","BSL","d","+",")">>, 1,
          <<Lit(<<"u","p">>),
              SpaceStar,
              Lit(<<"t","o">>),
              SpaceStar,
              Opt(<<Lit(<<"$">>)>>),
              Grp(1, <<DigitPlus>>)>>),
       \* line 320: (\d+)\s*(?:kzt|tenge)
       Re(<<"(","BSL","d","+",")","BSL","s","*","(","?",":","k","z","t","|","t","e","n","g","e",")">>, 1,
          <<Grp(1, <<DigitPlus>>), SpaceStar, Words(<<<<"k","z","t">>, <<"t","e","n","g","e">>>>)>>),
       \* line 321: \$(\d+)(?:\s*-\s*\$?(\d+))?
       Re(<<"BSL","$","(","BSL","d","+",")","(","?",":","BSL","s","*","-","BSL","s","*","BSL","$","?","(","BSL","d","+",")",")","?">>, 2,
          <<Lit(<<"$">>),
              Grp(1, <<DigitPlus>>),
              Opt(<<SpaceStar,
                    Lit(<<"-">>),
                    SpaceStar,
                    Opt(<<Lit(<<"$">>)>>),
                    Grp(2, <<DigitPlus>>)>>)>>),
       \* line 322: (\d+)\s*(?:to|through|-)\s*(\d+)\s*(?:dollars?|\$)
       Re(<<"(","BSL","d","+",")","BSL","s","*","(","?",":","t","o","|","t","h","r","o","u","g","h","|","-",")","BSL","s","*","(","BSL","d","+",")","BSL","s","*","(","?",":","d","o","l","l","a","r","s","?","|","BSL","$",")">>, 2,
          <<Grp(1, <<DigitPlus>>),
              SpaceStar,
              Words(<<<<"t","o">>, <<"t","h","r","o","u","g","h">>, <<"-">>>>),
              SpaceStar,
              Grp(2, <<DigitPlus>>),
              SpaceStar,
              Alt(<<<<Lit(<<"d","o","l","l","a","r">>), Opt(<<Lit(<<"s">>)>>)>>,
                    <<Lit(<<"$">>)>>>>)>>),
       \* line 323: budget\s+(?:of\s+)?(?:around\s+)?\$?(\d+)
       Re(<<"b","u","d","g","e","t","BSL","s","+","(","?",":","o","f","BSL","s","+",")","?","(","?",":","a","r","o","u","n","d","BSL","s","+",")","?","BSL","$","?","(","BSL","d","+",")">>, 1,
          <<Lit(<<"b","u","d","g","e","t">>),
              SpacePlus,
              Opt(<<Lit(<<"o","f">>), SpacePlus>>),
              Opt(<<Lit(<<"a","r","o","u","n","d">>), SpacePlus>>),
              Opt(<<Lit(<<"$">>)>>),
              Grp(1, <<DigitPlus>>)>>) >>

\* main.py lines 184-191
main_budget_patterns ==
    << \* line 185: (\d+)\s*(?:kzt|tenge)
       Re(<<"(","BSL","d","+",")","BSL","s","*","(","?",":","k","z","t","|","t","e","n","g","e",")">>, 1,
          <<Grp(1, <<DigitPlus>>), SpaceStar, Words(<<<<"k","z","t">>, <<"t","e","n","g","e">>>>)>>),
       \* line 186: \$(\d+)(?:\s*-\s*\$?(\d+))?
       Re(<<"BSL","$","(","BSL","d","+",")","(","?",":","BSL","s","*","-","BSL","s","*","BSL","$","?","(","BSL","d","+",")",")","?">>, 2,
          <<Lit(<<"$">>),
              Grp(1, <<DigitPlus>>),
              Opt(<<SpaceStar,
                    Lit(<<"-">>),
                    SpaceStar,
                    Opt(<<Lit(<<"$">>)>>),
                    Grp(2, <<DigitPlus>>)>>)>>),
       \* line 187: (\d+)\s*(?:to|through|-)\s*(\d+)\s*(?:dollars?|\$)
       Re(<<"(","BSL","d","+",")","BSL","s","*","(","?",":","t","o","|","t","h","r","o","u","g","h","|","-",")","BSL","s","*","(","BSL","d","+",")","BSL","s","*","(","?",":","d","o","l","l","a","r","s","?","|","BSL","$",")">>, 2,
          <<Grp(1, <<DigitPlus>>),
              SpaceStar,
              Words(<<<<"t","o">>, <<"t","h","r","o","u","g","h">>, <<"-">>>>),
              SpaceStar,
              Grp(2, <<DigitPlus>>),
              SpaceStar,
              Alt(<<<<Lit(<<"d","o","l","l","a","r">>), Opt(<<Lit(<<"s">>)>>)>>,
                    <<Lit(<<"$">>)>>>>)>>),
       \* line 188: budget\s+(?:of\s+)?(?:around\s+)?\$?(\d+)
       Re(<<"b","u","d","g","e","t","BSL","s","+","(","?",":","o","f","BSL","s","+",")","?","(","?",":","a","r","o","u","n","d","BSL","s","+",")","?","BSL","$","?","(","BSL","d","+",")">>, 1,
          <<Lit(<<"b","u","d","g","e","t">>),
              SpacePlus,
              Opt(<<Lit(<<"o","f">>), SpacePlus>>),
              Opt(<<Lit(<<"a","r","o","u","n","d">>), SpacePlus>>),
              Opt(<<Lit(<<"$">>)>>),
              Grp(1, <<DigitPlus>>)>>),
       \* line 189: under\s+\$?(\d+)
       Re(<<"u","n","d","e","r","BSL","s","+","BSL","$","?","(","BSL","d","+",")">>, 1,
          <<Lit(<<"u","n","d","e","r">>),
              SpacePlus,
              Opt(<<Lit(<<"$">>)>>),
              Grp(1, <<DigitPlus>>)>>),
       \* line 190: max\s+\$?(\d+)
       Re(<<"m","a","x","BSL","s","+","BSL","$","?","(","BSL","d","+",")">>, 1,
          <<Lit(<<"m","a","x">>),
              SpacePlus,
              Opt(<<Lit(<<"$">>)>>),
              Grp(1, <<DigitPlus>>)>>) >>

-----------------------------------------------------------------------------
(* extractors.py: extract_dates_from_text.  A date is the text             *)
(* "YYYY-MM-DD"; a datetime is a record of year, month and day (the time   *)
(* of day of every datetime the function builds is midnight).              *)

\* lines 72-76
month_names ==
    << <<<<"j","a","n","u","a","r","y">>, 1>>, <<<<"f","e","b","r","u","a","r","y">>, 2>>, <<<<"m","a","r","c","h">>, 3>>, <<<<"a","p","r","i","l">>, 4>>,
       <<<<"m","a","y">>, 5>>, <<<<"j","u","n","e">>, 6>>, <<<<"j","u","l","y">>, 7>>, <<<<"a","u","g","u","s","t">>, 8>>,
       <<<<"s","e","p","t","e","m","b","e","r">>, 9>>, <<<<"o","c","t","o","b","e","r">>, 10>>, <<<<"n","o","v","e","m","b","e","r">>, 11>>,
       <<<<"d","e","c","e","m","b","e","r">>, 12>>, <<<<"j","a","n">>, 1>>, <<<<"f","e","b">>, 2>>, <<<<"m","a","r">>, 3>>,
       <<<<"a","p","r">>, 4>>, <<<<"j","u","n">>, 6>>, <<<<"j","u","l">>, 7>>, <<<<"a","u","g">>, 8>>,
       <<<<"s","e","p">>, 9>>, <<<<"o","c","t">>, 10>>, <<<<"n","o","v">>, 11>>, <<<<"d","e","c">>, 12>> >>
InMonthNames(name) == \E k \in DOMAIN month_names : month_names[k][1] = name
MonthNumber(name) == month_names[CHOOSE k \in DOMAIN month_names : month_names[k][1] = name][2]

\* {n:02d}
TwoDigits(n) == IF n < 10 THEN <<"0">> \o NatToStr(n) ELSE NatToStr(n)
\* f"{current_year}-{month:02d}-{day:02d}", and strftime("%Y-%m-%d")
FormatDate(year, month, day) == NatToStr(year) \o <<"-">> \o TwoDigits(month) \o <<"-">> \o TwoDigits(day)

IsLeap(year) == (year % 4 = 0 /\ year % 100 # 0) \/ year % 400 = 0
DaysInMonth(year, month) ==
    CASE month = 2 -> IF IsLeap(year) THEN 29 ELSE 28
      [] month \in {4, 6, 9, 11} -> 30
      [] OTHER -> 31
DateTime(year, month, day) == [year |-> year, month |-> month, day |-> day]
IsDate(year, month, day) ==
    /\ month >= 1 /\ month <= 12
    /\ day >= 1 /\ day <= DaysInMonth(year, month)

\* str.isdigit()
IsDigits(text) == text # <<>> /\ \A i \in 1..Len(text) : IsDigit(text[i])

\* datetime.strptime(text, "%Y-%m-%d") of a text FormatDate wrote: None
\* stands for the ValueError of a month or a day that does not exist
strptime(text) ==
    LET year == ParseNat(text, 1, 5)
        month == ParseNat(text, 6, 8)
        day == ParseNat(text, 9, 11)
    IN  IF /\ Len(text) = 10 /\ text[5] = "-" /\ text[8] = "-"
           /\ IsDigits(SubSeq(text, 1, 4)) /\ IsDigits(SubSeq(text, 6, 7))
           /\ IsDigits(SubSeq(text, 9, 10))
           /\ IsDate(year, month, day)
        THEN Some(DateTime(year, month, day)) ELSE None
\* dt.strftime("%Y-%m-%d")
strftime(dt) == FormatDate(dt.year, dt.month, dt.day)

\* a < b of two datetimes at midnight
DateLess(a, b) ==
    \/ a.year < b.year
    \/ a.year = b.year /\ a.month < b.month
    \/ a.year = b.year /\ a.month = b.month /\ a.day < b.day

NextDay(dt) ==
    IF dt.day < DaysInMonth(dt.year, dt.month) THEN [dt EXCEPT !.day = @ + 1]
    ELSE IF dt.month < 12 THEN DateTime(dt.year, dt.month + 1, 1)
    ELSE DateTime(dt.year + 1, 1, 1)
\* dt + timedelta(days=n)
RECURSIVE AddDays(_, _)
AddDays(dt, n) == IF n = 0 THEN dt ELSE AddDays(NextDay(dt), n - 1)
\* dt.replace(year=year): None stands for the ValueError of 29 February in
\* a year that has none
ReplaceYear(dt, year) ==
    IF IsDate(year, dt.month, dt.day) THEN Some([dt EXCEPT !.year = year]) ELSE None

\* match.groups()
Groups(s, m) == [k \in 1..4 |-> Group(s, m, k)]
\* a or b, of two groups
OrElse(a, b) == IF TruthySeq(a) THEN a ELSE b
\* int(a or b) if a or b else None; 0 stands for None, both are falsy
IntOfEither(a, b) == IF TruthySeq(OrElse(a, b)) THEN ToInt(OrElse(a, b)[1]) ELSE 0

NoDates == [checkin_date |-> None, checkout_date |-> None, raised |-> FALSE]
BothDates(dates) == dates.checkin_date # None /\ dates.checkout_date # None

\* lines 44-95: the body of the inner loop for one match; raised says that
\* the ValueError of int() ended it at line 93
DateMatch(pattern, groups, current_year, dates) ==
    LET month == IntOfEither(groups[1], groups[3])
        day == IntOfEither(groups[2], groups[4])
        kept == [dates EXCEPT !.raised = FALSE]
    IN  IF Contains(pattern.src, <<"c","h","e","c","k",".","?","i","n">>) \/ Contains(pattern.src, <<"a","r","r","i","v","e">>)
        THEN IF month # 0 /\ day # 0
             THEN [kept EXCEPT !.checkin_date = Some(FormatDate(current_year, month, day))]
             ELSE kept
        ELSE IF Contains(pattern.src, <<"c","h","e","c","k",".","?","o","u","t">>) \/ Contains(pattern.src, <<"l","e","a","v","e">>)
        THEN IF month # 0 /\ day # 0
             THEN [kept EXCEPT !.checkout_date = Some(FormatDate(current_year, month, day))]
             ELSE kept
        ELSE IF pattern.groups >= 4 /\ \A k \in 1..4 : TruthySeq(groups[k])
        THEN IF IsDigits(groups[1][1]) /\ IsDigits(groups[2][1])
             THEN [kept EXCEPT
                     !.checkin_date = Some(FormatDate(current_year, ToInt(groups[1][1]), ToInt(groups[2][1]))),
                     !.checkout_date = Some(FormatDate(current_year, ToInt(groups[3][1]), ToInt(groups[4][1])))]
             ELSE IF ~IsDigits(groups[2][1]) \/ ~IsDigits(groups[4][1])
             THEN [dates EXCEPT !.raised = TRUE]
             ELSE LET checkin_month_name == Lower(groups[1][1])
                      checkout_month_name == Lower(OrElse(groups[3], groups[1])[1])
                  IN  IF InMonthNames(checkin_month_name) /\ InMonthNames(checkout_month_name)
                      THEN [kept EXCEPT
                              !.checkin_date = Some(FormatDate(current_year, MonthNumber(checkin_month_name), ToInt(groups[2][1]))),
                              !.checkout_date = Some(FormatDate(current_year, MonthNumber(checkout_month_name), ToInt(groups[4][1])))]
                      ELSE kept
        ELSE kept

\* lines 43-95: the matches of one pattern, left at line 91 once both dates
\* are there
RECURSIVE DateMatches(_, _, _, _, _)
DateMatches(pattern, text, matches, current_year, dates) ==
    IF matches = <<>> THEN dates
    ELSE LET after == DateMatch(pattern, Groups(text, matches[1]), current_year, dates)
         IN  IF ~after.raised /\ BothDates(after) THEN after
             ELSE DateMatches(pattern, text, Tail(matches), current_year, after)

\* lines 41-95: every pattern in turn, each starting from the dates the
\* patterns before it left
RECURSIVE DatePatterns(_, _, _, _)
DatePatterns(patterns, text, current_year, dates) ==
    IF patterns = <<>> THEN dates
    ELSE DatePatterns(Tail(patterns), text, current_year,
                      DateMatches(patterns[1], text, ReFindIter(patterns[1].p, text, 1), current_year, dates))

NoPair == [checkin |-> None, checkout |-> None]
Pair(checkin_date, checkout_date) == [checkin |-> Some(checkin_date), checkout |-> Some(checkout_date)]

\* lines 110-116: the dates moved to the next year when check-in is before
\* today; now is later than midnight, so a check-in today is before it
NotInThePast(checkin_date, checkin_dt, checkout_date, checkout_dt, today) ==
    IF /\ DateLess(checkin_dt, today) \/ checkin_dt = today
       /\ \/ checkin_dt.month < today.month
          \/ checkin_dt.month = today.month /\ checkin_dt.day < today.day
    THEN LET moved_in == ReplaceYear(checkin_dt, today.year + 1)
             moved_out == ReplaceYear(checkout_dt, today.year + 1)
         IN  IF moved_in = None \/ moved_out = None THEN NoPair
             ELSE Pair(strftime(moved_in[1]), strftime(moved_out[1]))
    ELSE Pair(checkin_date, checkout_date)

\* lines 97-125
ValidateDates(dates, today) ==
    IF ~BothDates(dates) THEN NoPair
    ELSE LET checkin_dt == strptime(dates.checkin_date[1])
             checkout_dt == strptime(dates.checkout_date[1])
         IN  IF checkin_dt = None \/ checkout_dt = None THEN NoPair
             ELSE IF DateLess(checkin_dt[1], checkout_dt[1])
             THEN NotInThePast(dates.checkin_date[1], checkin_dt[1],
                               dates.checkout_date[1], checkout_dt[1], today)
             ELSE NotInThePast(dates.checkin_date[1], checkin_dt[1],
                               strftime(AddDays(checkin_dt[1], 3)), AddDays(checkin_dt[1], 3), today)

\* lines 37-95: checkin_date and checkout_date when the loops are over
MatchedDates(text, today) == DatePatterns(date_patterns, text, today.year, NoDates)

\* lines 18-125, with datetime.now() on the day today
extract_dates_from_text(text, today) == ValidateDates(MatchedDates(text, today), today)

-----------------------------------------------------------------------------
(* extractors.py, extract_search_params_regex: the price cascade           *)

\* the prices set, the number of the pattern applied (0: none matched), the
\* local variable price of a single price, and whether an exception left
\* the function
NoPrices == [min_price |-> None, max_price |-> None, pattern |-> 0, price |-> None, raised |-> FALSE]

\* line 331, and main.py line 196
IsKztPattern(pattern) == Contains(Lower(pattern.src), <<"k","z","t">>) \/ Contains(Lower(pattern.src), <<"t","e","n","g","e">>)

\* line 346
HasMaxWord(pattern_text) == AnyIn(pattern_text, {<<"m","a","x">>, <<"u","n","d","e","r">>, <<"b","e","l","o","w">>, <<"u","p"," ","t","o">>})

\* lines 331-352: the match m of the pattern number k is applied.  Every
\* pattern has a first group that takes part in every match, so lastindex
\* is a number
ApplyBudget(pattern, k, text, m) ==
    LET price == ToInt(Group(text, m, 1)[1])
    IN  IF IsKztPattern(pattern)
        THEN [NoPrices EXCEPT !.pattern = k, !.max_price = Some(price \div 450)]
        ELSE IF LastIndex(m) >= 2 /\ TruthySeq(Group(text, m, 2))
        THEN [NoPrices EXCEPT !.pattern = k, !.min_price = Some(price),
                              !.max_price = Some(ToInt(Group(text, m, 2)[1]))]
        ELSE IF HasMaxWord(Lower(Group0(text, m)))
        THEN [NoPrices EXCEPT !.pattern = k, !.price = Some(price), !.max_price = Some(price)]
        ELSE [NoPrices EXCEPT !.pattern = k, !.price = Some(price),
                              !.min_price = Some(Max(20, price - 30)),
                              !.max_price = Some(price + 30)]

\* lines 326-354: params has no price when the loop begins, so the first
\* pattern that matches is applied, and line 354 leaves the loop
RECURSIVE BudgetCascade(_, _, _)
BudgetCascade(patterns, k, text) ==
    IF k > Len(patterns) THEN NoPrices
    ELSE LET m == ReSearch(patterns[k].p, text)
         IN  IF m.found THEN ApplyBudget(patterns[k], k, text, m)
             ELSE BudgetCascade(patterns, k + 1, text)

\* lines 312-354
extract_prices(text) == BudgetCascade(budget_patterns, 1, text)

\* main.py lines 196-211: match.group(2) of a pattern that has one group
\* raises IndexError, which nothing catches
MainApplyBudget(pattern, k, text, m) ==
    LET price == ToInt(Group(text, m, 1)[1])
    IN  IF IsKztPattern(pattern)
        THEN [NoPrices EXCEPT !.pattern = k, !.max_price = Some(price \div 450)]
        ELSE IF pattern.groups < 2
        THEN [NoPrices EXCEPT !.pattern = k, !.raised = TRUE]
        ELSE IF TruthySeq(Group(text, m, 2))
        THEN [NoPrices EXCEPT !.pattern = k, !.min_price = Some(price),
                              !.max_price = Some(ToInt(Group(text, m, 2)[1]))]
        ELSE IF Contains(Lower(Group0(text, m)), <<"u","n","d","e","r">>) \/ Contains(Lower(Group0(text, m)), <<"m","a","x">>)
        THEN [NoPrices EXCEPT !.pattern = k, !.price = Some(price), !.max_price = Some(price)]
        ELSE [NoPrices EXCEPT !.pattern = k, !.price = Some(price),
                              !.min_price = Some(price \div 2),
                              !.max_price = Some(price * 2)]

\* main.py lines 193-212
RECURSIVE MainBudgetCascade(_, _, _)
MainBudgetCascade(patterns, k, text) ==
    IF k > Len(patterns) THEN NoPrices
    ELSE LET m == ReSearch(patterns[k].p, text)
         IN  IF m.found THEN MainApplyBudget(patterns[k], k, text, m)
             ELSE MainBudgetCascade(patterns, k + 1, text)

\* main.py lines 183-212
main_extract_prices(text) == MainBudgetCascade(main_budget_patterns, 1, text)

-----------------------------------------------------------------------------
(* extractors.py, extract_search_params_regex: the location                *)

\* lines 224-231, but for the seven names in Cyrillic letters of line 229:
\* the texts of the model are ASCII, and none of them can contain one
known_locations ==
    << <<"a","l","m","a","t","y">>, <<"a","s","t","a","n","a">>, <<"s","h","y","m","k","e","n","t">>, <<"a","k","t","o","b","e">>, <<"t","a","r","a","z">>, <<"p","a","v","l","o","d","a","r">>,
       <<"t","o","k","y","o">>, <<"n","e","w"," ","y","o","r","k">>, <<"l","o","n","d","o","n">>, <<"p","a","r","i","s">>, <<"b","e","r","l","i","n">>, <<"m","a","d","r","i","d">>, <<"r","o","m","e">>,
       <<"m","o","s","c","o","w">>, <<"b","e","i","j","i","n","g">>, <<"s","e","o","u","l">>, <<"b","a","n","g","k","o","k">>, <<"d","u","b","a","i">>, <<"i","s","t","a","n","b","u","l">>,
       <<"k","a","z","a","k","h","s","t","a","n">> >>

\* lines 262-272
non_locations ==
    { <<"h","e","l","p">>, <<"l","o","o","k","i","n","g">>, <<"n","e","e","d">>, <<"w","a","n","t">>, <<"f","i","n","d">>, <<"s","e","a","r","c","h">>, <<"b","o","o","k">>, <<"s","t","a","y">>,
      <<"a","p","a","r","t","m","e","n","t">>, <<"h","o","u","s","e">>, <<"p","l","a","c","e">>, <<"r","o","o","m">>, <<"h","o","m","e">>, <<"h","o","t","e","l">>, <<"r","e","n","t","a","l">>,
      <<"c","h","e","a","p">>, <<"e","x","p","e","n","s","i","v","e">>, <<"b","u","d","g","e","t">>, <<"l","u","x","u","r","y">>, <<"n","i","c","e">>, <<"g","o","o","d">>, <<"g","r","e","a","t">>,
      <<"p","e","r","f","e","c","t">>, <<"p","e","o","p","l","e">>, <<"g","u","e","s","t","s">>, <<"a","d","u","l","t","s">>, <<"p","e","r","s","o","n">>, <<"m","e">>, <<"u","s">>,
      <<"t","h","e","m">>, <<"n","i","g","h","t">>, <<"d","a","y">>, <<"w","e","e","k">>, <<"m","o","n","t","h">>, <<"y","e","a","r">>, <<"t","i","m","e">>, <<"d","a","t","e">>,
      <<"p","r","i","c","e">>, <<"c","o","s","t">>, <<"m","o","n","e","y">>, <<"d","o","l","l","a","r">>, <<"a","c","c","o","m","m","o","d","a","t","i","o","n">>, <<"s","o","m","e","t","h","i","n","g">>,
      <<"s","o","m","e","w","h","e","r","e">>, <<"a","n","y","w","h","e","r","e">>, <<"a","n","y","t","h","i","n","g">>, <<"e","v","e","r","y","t","h","i","n","g">>, <<"y","o","u">>, <<"t","h","e">>,
      <<"a","i","r","b","n","b">>, <<"h","e","l","p"," ","y","o","u"," ","f","i","n","d">>, <<"m","o","u","n","t","a","i","n","s">>, <<"b","e","a","c","h">>, <<"d","o","w","n","t","o","w","n">>,
      <<"c","e","n","t","e","r">>, <<"c","l","o","s","e">>, <<"c","l","o","s","e","r">>, <<"n","e","a","r">> }

\* line 290
filler_phrases == {<<"h","e","l","p"," ","y","o","u">>, <<"f","i","n","d"," ","t","h","e">>, <<"p","e","r","f","e","c","t"," ","a","i","r","b","n","b">>}

\* Mutant: the name anywhere in the text, inside a word too
KnownAnywhere(known, text) == Contains(Lower(text), Lower(known))

\* lines 238-239: re.search(r'\b' + re.escape(known.lower()) + r'\b', text.lower())
KnownIn(known, text) == ReSearch(<<WordBoundary, Lit(Lower(known)), WordBoundary>>, Lower(text)).found

\* lines 236-242: the first name of the list that the text contains
RECURSIVE FirstKnown(_, _, _)
FirstKnown(names, k, text) ==
    IF k > Len(names) THEN None
    ELSE IF KnownIn(names[k], text) THEN Some(Title(names[k]))
    ELSE FirstKnown(names, k + 1, text)

\* str.split(): the words of s, divided by white space
RECURSIVE Split(_)
Split(s) ==
    LET starts == {i \in 1..Len(s) : ~IsSpace(s[i])}
    IN  IF starts = {} THEN <<>>
        ELSE LET i == FirstIndex(starts)
                 ends == {j \in i..Len(s) : IsSpace(At(s, j + 1)) \/ j = Len(s)}
                 j == FirstIndex(ends)
             IN  <<SubSeq(s, i, j)>> \o Split(SubSeq(s, j + 1, Len(s)))

\* Mutant: the words of the candidate are not looked up
StopWordsAllowed(location_clean) == TRUE

\* lines 276-284: no word of the candidate is in the stoplist
NoStopWord(location_clean) == \A k \in DOMAIN Split(location_clean) : Split(location_clean)[k] \notin non_locations

\* lines 275-290
IsValidLocation(location) ==
    LET location_clean == Lower(Strip(location))
    IN  /\ NoStopWord(location_clean)
        /\ Len(location_clean) > 2
        /\ location_clean \notin non_locations
        /\ ~AnyIn(location_clean, filler_phrases)

\* lines 254-259: the candidates of the contextual patterns, in the order
\* the loops meet them
RECURSIVE Candidates(_, _)
Candidates(patterns, text) ==
    IF patterns = <<>> THEN <<>>
    ELSE LET R == ReFindIter(patterns[1].p, text, 1)
         IN  [n \in 1..Len(R) |-> Strip(Group(text, R[n], 1)[1])] \o Candidates(Tail(patterns), text)

\* lines 254-297: the first candidate that is valid, in title case
RECURSIVE FirstValid(_)
FirstValid(candidates) ==
    IF candidates = <<>> THEN None
    ELSE IF IsValidLocation(candidates[1]) THEN Some(Title(candidates[1]))
    ELSE FirstValid(Tail(candidates))

\* lines 223-297: the location, the candidates read, and whether the
\* gazetteer gave it
extract_location(text) ==
    LET known == FirstKnown(known_locations, 1, text)
    IN  IF TruthySeq(known)
        THEN [location |-> known, known |-> TRUE, candidates |-> <<>>]
        ELSE [location |-> FirstValid(Candidates(location_patterns, text)), known |-> FALSE,
              candidates |-> Candidates(location_patterns, text)]

-----------------------------------------------------------------------------
(* The field matchers, each called on a text                               *)

MatchTexts ==
    { <<>>, <<"h","e","l","l","o">>,
      <<"6","/","1","5"," ","-"," ","6","/","2","0">>, <<"1","2","/","2","0"," ","-"," ","1","2","/","1","5">>, <<"1","2","/","3","0"," ","-"," ","1","2","/","3","0">>, <<"1","2","/","3","0"," ","-"," ","1","/","2">>,
      <<"2","/","2","9"," ","-"," ","3","/","2">>, <<"1","3","/","4","5"," ","-"," ","1","/","1">>, <<"J","u","n","e"," ","1","5"," ","-"," ","J","u","l","y"," ","2">>, <<"0","6","-","1","5"," ","t","o"," ","0","6","-","2","0">>,
      <<"c","h","e","c","k"," ","i","n"," ","6","/","1","5"," ","a","n","d"," ","c","h","e","c","k"," ","o","u","t"," ","6","/","2","0">>, <<"a","r","r","i","v","e"," ","6","/","1","5"," ","l","e","a","v","e"," ","6","/","1","0">>,
      <<"c","h","e","c","k"," ","i","n"," ","7","/","1",","," ","6","/","1","5"," ","-"," ","6","/","2","0">>, <<"6","/","1","5"," ","-"," ","6","/","2","0",","," ","c","h","e","c","k"," ","o","u","t"," ","7","/","1">>,
      <<"6","/","1","5"," ","-"," ","6","/","2","0"," ","a","n","d"," ","c","h","e","c","k"," ","i","n"," ","7","/","1">>, <<"c","h","e","c","k"," ","i","n"," ","6","/","1","5">>,
      <<"u","n","d","e","r"," ","2","0","0">>, <<"b","u","d","g","e","t"," ","o","f"," ","1","0","0">>, <<"m","a","x"," ","1","0","0">>, <<"u","p"," ","t","o"," ","7","0">>, <<"u","p","t","o"," ","7","0">>,
      <<"u","p"," "," ","t","o"," ","$","7","0">>, <<"7","0"," ","U","S","D"," ","m","a","x">>, <<"8","0"," ","p","e","r"," ","d","a","y"," ","m","a","x">>, <<"b","e","l","o","w"," ","$","3","0">>,
      <<"u","n","d","e","r"," ","5","0"," ","a","n","d"," ","$","7","0","-","1","0","0">>, <<"$","7","0"," ","m","a","x">>, <<"$","5","0">>, <<"$","5","0","-","$","9","0">>,
      <<"5","0"," ","t","o"," ","9","0"," ","d","o","l","l","a","r","s">>, <<"4","5","0","0","0"," ","k","z","t">>, <<"a","r","o","u","n","d"," ","2","0","0">>, <<"a","b","o","u","t"," ","2","0","0">>,
      <<"b","u","d","g","e","t"," ","a","r","o","u","n","d"," ","2","0","0">>, <<"b","u","d","g","e","t"," ","o","f"," ","1","0">>,
      <<"I"," ","w","a","n","t"," ","t","o"," ","g","o"," ","t","o"," ","T","o","k","y","o">>, <<"P","a","r","i","s"," ","o","r"," ","L","o","n","d","o","n">>, <<"N","E","W"," ","Y","O","R","K","!">>,
      <<"v","i","s","i","t"," ","O","l","d"," ","T","o","w","n",","," ","l","o","n","d","o","n">>, <<"t","o","k","y","o","2"," ","o","r"," ","L","o","n","d","o","n">>, <<"r","o","m","e","o"," ","i","n"," ","G","o","a",".">>,
      <<"I"," ","n","e","e","d"," ","h","e","l","p"," ","f","i","n","d","i","n","g"," ","a"," ","g","o","o","d"," ","a","p","a","r","t","m","e","n","t">>, <<"s","t","a","y"," ","i","n"," ","G","o","o","d"," ","P","l","a","c","e">>,
      <<"f","l","a","t"," ","i","n"," ","O","s","l","o">>, <<"i","n"," ","U","n","h","e","l","p"," ","Y","o","u","t","h",".">>, <<"t","o"," ","M","e">>, <<"i","n"," ","N","i","c","e",","," ","a","t"," ","K","y","i","v">>,
      <<"f","l","y"," ","t","o"," ","C","a","p","e"," ","T","o","w","n"," ","w","i","t","h"," ","3">>, <<"T","o","k","y","o"," ","6","/","1","5"," ","-"," ","6","/","2","0"," ","u","n","d","e","r"," ","$","1","5","0">> }

\* the days on which the matchers are called
Todays ==
    { DateTime(2026, 3, 1), DateTime(2026, 11, 3), DateTime(2026, 12, 31),
      DateTime(2028, 3, 5) }

InitMatch ==
    /\ ScrapeIdle
    /\ ValidateIdle
    /\ EvalIdle
    /\ CallsIdle
    /\ x_pc = "idle"
    /\ conversation_text = <<>>
    /\ x_params = <<>>
    /\ llm_response = [kind |-> "none"]
    /\ llm_params = <<>>
    /\ x_raised = FALSE
    /\ m_pc = "ready"
    /\ m_text \in MatchTexts
    /\ m_today \in Todays
    /\ m_out = <<>>

\* extractors.py lines 18-125: the pair returned, and checkin_date and
\* checkout_date as the loops left them
ExtractDates ==
    /\ m_pc = "ready"
    /\ m_pc' = "dates"
    /\ LET pair == extract_dates_from_text(m_text, m_today)
           matched == MatchedDates(m_text, m_today)
       IN  m_out' = [checkin |-> pair.checkin, checkout |-> pair.checkout,
                     checkin_date |-> matched.checkin_date,
                     checkout_date |-> matched.checkout_date]
    /\ UNCHANGED <<m_text, m_today>>

\* extractors.py lines 223-297
ExtractLocation ==
    /\ m_pc = "ready"
    /\ m_pc' = "location"
    /\ m_out' = extract_location(m_text)
    /\ UNCHANGED <<m_text, m_today>>

\* extractors.py lines 312-354
ExtractPrices ==
    /\ m_pc = "ready"
    /\ m_pc' = "prices"
    /\ m_out' = extract_prices(m_text)
    /\ UNCHANGED <<m_text, m_today>>

\* main.py lines 183-212
MainExtractPrices ==
    /\ m_pc = "ready"
    /\ m_pc' = "main_prices"
    /\ m_out' = main_extract_prices(m_text)
    /\ UNCHANGED <<m_text, m_today>>

MatchFrame == UNCHANGED <<scrape_vars, validate_vars, eval_vars, calls, x_pc, conversation_text, x_params, llm_response, llm_params, x_raised>>

NextMatch ==
    \/ ExtractDates /\ MatchFrame
    \/ ExtractLocation /\ MatchFrame
    \/ ExtractPrices /\ MatchFrame
    \/ MainExtractPrices /\ MatchFrame

SpecMatch == InitMatch /\ [][NextMatch]_vars
-----------------------------------------------------------------------------
(* Claims about the retrieval pipeline, checked under Spec *)

IsRealListing(r) == r.source \in {<<"a","i","r","b","n","b","_","r","e","q","u","e","s","t","s">>, <<"a","i","r","b","n","b","_","s","e","l","e","n","i","u","m">>}
RenderedTierHasNone ==
    pending.exc \/ \A i \in 1..Len(pending.val) : ~IsRealListing(pending.val[i])
PageValues == {PageTitle, PagePrice, PageRating, PageLink}

\* C1: every call of scrape_airbnb_listings, whatever the tiers did, returns
\* a non-empty list of at most max_listings records.
C1_NonEmptyAtMostMax ==
    pc = "done" =>
        /\ ~escaped
        /\ Len(results) >= 1
        /\ Len(results) <= max_listings

\* C1 witness: a call with max_listings = 2 returned two rendered records
\* although the page offered more.
C1_Witness ==
    /\ pc = "done"
    /\ max_listings = 2
    /\ Len(results) = 2
    /\ fast_res = <<>>
    /\ results[1].source = <<"a","i","r","b","n","b","_","s","e","l","e","n","i","u","m">>

\* C2: when neither live tier yields a real listing, the result is exactly
\* one record whose link is the search URL, whose source is the redirect
\* tier and whose title, price and rating are placeholders, none of them a
\* value read from the page.
C2_DegradedRecord ==
    (pc = "done" /\ fast_res = <<>> /\ RenderedTierHasNone) =>
        /\ Len(results) = 1
        /\ results[1].link = search_url
        /\ results[1].source = <<"a","i","r","b","n","b","_","r","e","d","i","r","e","c","t">>
        /\ MatchAt(results[1].title, 1, <<"P","r","o","p","e","r","t","i","e","s"," ","a","v","a","i","l","a","b","l","e"," ","i","n"," ">>)
        /\ results[1].price = <<"V","i","s","i","t"," ","A","i","r","b","n","b"," ","f","o","r"," ","c","u","r","r","e","n","t"," ","p","r","i","c","i","n","g">>
        /\ results[1].rating = <<"S","e","e"," ","a","c","t","u","a","l"," ","r","e","v","i","e","w","s"," ","o","n"," ","s","i","t","e">>
        /\ \A v \in PageValues :
              /\ ~Contains(results[1].title, v)
              /\ ~Contains(results[1].price, v)
              /\ ~Contains(results[1].rating, v)

\* C2 witness: the fast tier failed, the rendered tier found no listing,
\* and the call returned the degraded record for a URL with a location.
C2_Witness ==
    /\ pc = "done"
    /\ fast_res = <<>>
    /\ "fetch" \in errors
    /\ ~pending.exc
    /\ pending.val = SeleniumPlaceholder(search_url)
    /\ results[1].title = <<"P","r","o","p","e","r","t","i","e","s"," ","a","v","a","i","l","a","b","l","e"," ","i","n"," ","N","e","w"," ","Y","o","r","k">>

\* C3: no exception raised inside a tier, an error of quit() included,
\* leaves scrape_airbnb_listings; the call still returns a list.
C3_NoErrorEscapes ==
    /\ ~escaped
    /\ (pc = "done" /\ errors # {}) => Len(results) >= 1

\* C3 witness: quit() raised after the rendered tier had read listings,
\* and the call returned.
C3_Witness ==
    /\ pc = "done"
    /\ "quit" \in errors
    /\ pending.exc
    /\ Len(results) = 1

-----------------------------------------------------------------------------
(* Claims about the evaluator: should_trigger_search, then                 *)
(* should_show_confirmation                                                *)

Actions == {"ExecuteSearch", "RequestConfirmation", "RequestMoreInfo"}

\* the message is one of the affirmative tokens, case and outer blanks aside
IsAffirmative == Strip(Lower(message)) \in affirmative_responses

\* the message contains an explicit search phrase
IsExplicitCommand == AnyIn(Lower(message), explicit_search_triggers)

\* len(message.split())
WordCount(s) ==
    Cardinality({i \in 1..Len(s) : ~IsSpace(s[i]) /\ (i = 1 \/ IsSpace(s[i-1]))})

\* the user's earlier turns of the history
UserTurns == {i \in DOMAIN history : history[i].sender = "user"}

\* C4: whenever the query has no location (None or the empty string), the
\* action is RequestMoreInfo, for every message and every history.
C4_NoLocationMoreInfo ==
    (e_pc = "done" /\ (params.location = None \/ params.location = Some(<<>>))) =>
        action = "RequestMoreInfo"

\* C4 witness: the user says "yes" after a confirmation was shown, the query
\* has guests and prices but no location, and more information is requested.
C4_Witness ==
    /\ e_pc = "done"
    /\ message = <<"y","e","s">>
    /\ params.location = None
    /\ params.guests = Some(2)
    /\ Len(history) = MaxHistory
    /\ history[Len(history)] = Assistant(<<"S","h","o","u","l","d"," ","I"," ","s","t","a","r","t"," ","s","e","a","r","c","h","i","n","g","?">>)
    /\ action = "RequestMoreInfo"

\* only the location of the query is set
OnlyLocationSet ==
    /\ TruthySeq(params.location)
    /\ ~TruthyInt(params.guests)
    /\ ~TruthyInt(params.min_price)
    /\ ~TruthyInt(params.max_price)
    /\ ~TruthySeq(params.checkin)
    /\ ~TruthySeq(params.checkout)
    /\ ~TruthySeq(params.property_type)
    /\ ~TruthySeq(params.amenities)

\* the case of C5: only a location, at most two user turns so far, and a
\* message that is neither affirmative nor an explicit search command
LocationOnlyCase ==
    /\ e_pc = "done"
    /\ OnlyLocationSet
    /\ Cardinality(UserTurns) <= 2
    /\ ~IsAffirmative
    /\ ~IsExplicitCommand

CarriesDetailOrNewLocation ==
    \/ AnyIn(Lower(message), price_indicators \cup date_indicators
                             \cup guest_indicators \cup area_specs
                             \cup property_types)
    \/ \E i \in 1..Len(message) : IsDigit(message[i])
    \/ \A i \in UserTurns :
          ~Contains(Lower(history[i].text), Lower(params.location[1]))

C6_NoRepeatedConfirmation ==
    ~(action = "RequestConfirmation" /\ prev_action = "RequestConfirmation")

\* C7: whenever the query has a location, a message that is an affirmative
\* token or contains an explicit search phrase gives ExecuteSearch, for
\* every history and every setting of the other fields.
C7_AffirmativeExecutes ==
    (e_pc = "done" /\ TruthySeq(params.location)
        /\ (IsAffirmative \/ IsExplicitCommand)) =>
        action = "ExecuteSearch"

\* C7 witness: location, guests and a price bound are set, a confirmation
\* was shown, the user answers "  YES " and the search is executed.
C7_Witness ==
    /\ e_pc = "done"
    /\ message = <<" "," ","Y","E","S"," ">>
    /\ IsAffirmative
    /\ params = Comprehensive
    /\ Len(history) = MaxHistory
    /\ history[1] = User(<<"I"," ","w","a","n","t"," ","t","o"," ","g","o"," ","t","o"," ","T","o","k","y","o">>)
    /\ action = "ExecuteSearch"

\* the case of C8: location, guests, a price bound and a date bound are
\* set, and the message has more than 5 words and is neither affirmative
\* nor an explicit search command
ComprehensiveCase ==
    /\ e_pc = "done"
    /\ TruthySeq(params.location)
    /\ TruthyInt(params.guests)
    /\ (TruthyInt(params.min_price) \/ TruthyInt(params.max_price))
    /\ (TruthySeq(params.checkin) \/ TruthySeq(params.checkout))
    /\ WordCount(message) > 5
    /\ ~IsAffirmative
    /\ ~IsExplicitCommand

-----------------------------------------------------------------------------
(* Claims about validate_and_fix_params *)

\* the first guest number between 1 and 16 that each source text states in
\* a guest phrase, 2 when it states none
GuestsStatedIn(text) ==
    CASE text = <<"1","2","0"," ","p","e","o","p","l","e"," ","a","n","d"," ","3"," ","g","u","e","s","t","s",","," ","b","u","d","g","e","t"," ","9","0","0">> -> 3
      [] text = <<"2","5"," ","p","e","o","p","l","e"," ","o","r"," ","8"," ","o","f"," ","u","s",","," ","1","0","0"," ","t","o"," ","2","0","0"," ","d","o","l","l","a","r","s">> -> 8
      [] text = <<"u","p"," ","t","o"," ","8","0"," ","w","i","t","h"," ","1","2"," ","g","u","e","s","t","s">> -> 12
      [] text = <<"2"," ","g","u","e","s","t","s"," ","a","r","o","u","n","d"," ","$","1","5","0">> -> 2
      [] text = <<"F","o","r"," ","4"," ","a","d","u","l","t","s"," ","u","n","d","e","r"," ","$","2","0","0"," ","i","n"," ","T","o","k","y","o">> -> 4
      [] OTHER -> 2

\* C9: for every input query and every source text the returned query has
\* guests between 1 and 16; a value above 16 is replaced by the first
\* in-range guest number of the text, or by 2 when there is none.
C9_GuestsInRange ==
    v_pc = "done" =>
        /\ v_out.guests # None
        /\ v_out.guests[1] >= 1
        /\ v_out.guests[1] <= 16
        /\ (v_in.guests # None /\ v_in.guests[1] > 16) =>
              v_out.guests[1] = GuestsStatedIn(v_text)

\* C9 witness: 200 guests were extracted from a text that speaks of 120
\* people and then of 3 guests; the returned query has 3 guests.
C9_Witness ==
    /\ v_pc = "done"
    /\ v_in.guests = Some(200)
    /\ v_text = <<"1","2","0"," ","p","e","o","p","l","e"," ","a","n","d"," ","3"," ","g","u","e","s","t","s",","," ","b","u","d","g","e","t"," ","9","0","0">>
    /\ v_out.guests = Some(3)

\* C10 as stated: the returned query never has min_price > max_price when
\* both are set (to a value other than 0).
C10_MinNotAboveMax ==
    (v_pc = "done" /\ TruthyInt(v_out.min_price) /\ TruthyInt(v_out.max_price)) =>
        v_out.min_price[1] <= v_out.max_price[1]

\* C11 as stated: validating the result of validate_and_fix_params again
\* with the same text yields a query equal in every field.
C11_Idempotent == v_pc = "again" => v_out = v_in

\* C12 as stated: the returned query has max_price <= 2000 when set and
\* min_price >= 20 when set (set: to a value other than 0).
C12_PriceCaps ==
    v_pc = "done" =>
        /\ TruthyInt(v_out.max_price) => v_out.max_price[1] <= 2000
        /\ TruthyInt(v_out.min_price) => v_out.min_price[1] >= 20

\* C13: location, checkin, checkout, property_type and amenities of the
\* returned query equal those of the input query, for every input and text.
C13_OtherFieldsUnchanged ==
    v_pc = "done" =>
        /\ v_out.location = v_in.location
        /\ v_out.checkin = v_in.checkin
        /\ v_out.checkout = v_in.checkout
        /\ v_out.property_type = v_in.property_type
        /\ v_out.amenities = v_in.amenities

\* C13 witness: a query with every field set has its guests and both prices
\* rewritten from the text, and the other five fields come back as given.
C13_Witness ==
    /\ v_pc = "done"
    /\ v_text = <<"2"," ","g","u","e","s","t","s"," ","a","r","o","u","n","d"," ","$","1","5","0">>
    /\ v_in.guests = Some(200)
    /\ v_in.max_price = Some(2500)
    /\ v_out.guests = Some(2)
    /\ v_out.min_price = Some(100)
    /\ v_out.max_price = Some(200)
    /\ v_out.checkin = Some(<<"2","0","2","6","-","0","6","-","1","5">>)
    /\ v_out.amenities = Some(<<<<"w","i","f","i">>, <<"p","o","o","l">>>>)

-----------------------------------------------------------------------------
(* Claims about extract_search_params *)

\* the completion call was made and failed
LlmFailed == llm_response.kind \in LlmFailures

\* C14: when the fallback is called and fails in any way, no exception
\* leaves extract_search_params and the returned query equals the result
\* of the deterministic pass in every field.
C14_FailureFallsBack ==
    (x_pc = "done" /\ LlmFailed) =>
        /\ ~x_raised
        /\ x_params = extract_search_params_regex(conversation_text)

\* C14 witness: the response was a JSON array, and the call returned the
\* guests and prices of the deterministic pass.
C14_Witness ==
    /\ x_pc = "done"
    /\ llm_response.kind = "json_array"
    /\ ~x_raised
    /\ x_params.guests = Some(3)
    /\ x_params.min_price = Some(90)
    /\ x_params.location = None

C16_FallbackOnlyWhenNeeded ==
    (x_pc = "llm" \/ llm_response.kind # "none") =>
        /\ extract_search_params_regex(conversation_text).location = None
        /\ Len(conversation_text) >= 51
        /\ \E k \in {<<"a","c","c","o","m","m","o","d","a","t","i","o","n">>, <<"t","r","a","v","e","l">>, <<"t","r","i","p">>, <<"v","i","s","i","t">>, <<"b","o","o","k","i","n","g">>,
                     <<"s","t","a","y">>} : Contains(Lower(conversation_text), k)

\* C16 witness: a text of 51 characters with "booking" and no location
\* went to the fallback.
C16_Witness ==
    /\ x_pc = "done"
    /\ Len(conversation_text) = 51
    /\ llm_response.kind = "json_object"
    /\ x_params.location = Some(<<"L","i","s","b","o","n">>)

-----------------------------------------------------------------------------
(* Claims about the rendering session and the time budget *)

\* the threads that hold a session handle they navigate with or read from
Users == {t \in DOMAIN calls : calls[t].pc \in {"navigate", "reading"}}

\* C17 as stated: with concurrent calls of scrape_airbnb_listings_selenium
\* no two calls use the same session handle at the same time, and no call
\* navigates with or reads from a session that was already quit.
C17_SingleOwner ==
    /\ \A t, u \in Users : t # u => calls[t].driver # calls[u].driver
    /\ \A t \in Users : sessions[calls[t].driver] = "live"

\* C18: a cached session is navigated with only if the probe on it
\* succeeded in the same call; when the probe failed, the session that is
\* navigated with was created in this call and is the cached one.
C18_ProbedOrFresh ==
    pc = "sel_nav" =>
        /\ driver # 0
        /\ driver = driver_cache
        /\ sessions[driver] # "quit"
        /\ "probe" \in errors => sessions[driver] = "live"
        /\ sessions[driver] = "quit_failed" => "probe" \notin errors

\* C18 witness: the cache held the session of an earlier call, the probe
\* on it failed, and the call is about to navigate with a new session that
\* is now the cached one.
C18_Witness ==
    /\ pc = "sel_nav"
    /\ "probe" \in errors
    /\ sessions[1] = "quit"
    /\ driver = 2
    /\ driver_cache = 2
    /\ sessions[2] = "live"

\* C19: quit() has been called on every session created during a call by
\* the time the call returns, so no session is open outside the rendered
\* tier; after cleanup_driver the cache is empty.
C19_SessionsClosed ==
    /\ pc \in {"idle", "fast", "sel_acquire", "sel_return", "done", "exited"} =>
          \A s \in DOMAIN sessions : sessions[s] # "live"
    /\ pc = "exited" => driver_cache = 0

\* C19 witness: a call whose script injection failed, a call that read
\* listings and a call whose navigation failed each created a session; all
\* three were quit, and cleanup_driver has emptied the cache.
C19_Witness ==
    /\ pc = "exited"
    /\ driver_cache = 0
    /\ \A s \in DOMAIN sessions : sessions[s] = "quit"
    /\ "navigate" \in errors

\* the rendered tier was begun in this call
RenderedTierBegun == driver # 0 \/ pending # Returned(<<>>)

\* C20: the rendered tier is started only if the fast tier produced no
\* record and at most 15 s have elapsed; fast records are returned at once,
\* and with the budget exhausted the rendered tier is not begun and the
\* placeholder is returned.
C20_TimeBudget ==
    /\ (pc \in {"sel_acquire", "sel_nav", "sel_extract", "sel_finally",
                "sel_return"} \/ (pc = "done" /\ RenderedTierBegun)) =>
          fast_res = <<>> /\ elapsed_time <= 15
    /\ (pc = "done" /\ fast_res # <<>>) =>
          results = fast_res /\ ~RenderedTierBegun
    /\ (pc = "done" /\ fast_res = <<>> /\ elapsed_time > 15) =>
          /\ ~RenderedTierBegun
          /\ Len(results) = 1
          /\ results[1].source = <<"a","i","r","b","n","b","_","r","e","d","i","r","e","c","t">>
          /\ results[1].link = search_url

\* C20 witness: the fast tier found nothing and took 16 s; the call
\* returned the placeholder without a rendering session.
C20_Witness ==
    /\ pc = "done"
    /\ fast_res = <<>>
    /\ elapsed_time = 16
    /\ ~RenderedTierBegun
    /\ results[1].source = <<"a","i","r","b","n","b","_","r","e","d","i","r","e","c","t">>

\* C21 as stated: every call of scrape_airbnb_listings returns within the
\* overall budget of 15 s, also when the rendered tier is started shortly
\* before the deadline.
C21_ReturnsWithinBudget == pc = "done" => clock <= max_total_time

\* the call passes from acquiring a session to navigating with a session
\* that existed before the call acquired it
ReusesEarlierSession ==
    /\ pc = "sel_acquire"
    /\ pc' = "sel_nav"
    /\ sessions[driver'] # "none"

-----------------------------------------------------------------------------
(* Claims about the evaluator on validated queries *)

\* C30: for every query that validate_and_fix_params returned,
\* should_show_confirmation is False on every history, and the action of
\* the turn is ExecuteSearch or RequestMoreInfo, never RequestConfirmation.
C30_NoConfirmationAfterValidation ==
    /\ v_pc = "done" =>
          /\ v_out.guests # None
          /\ v_out.guests[1] >= 1
          /\ \A h \in EvalHistories : ~should_show_confirmation(v_out, h)
    /\ e_pc = "done" => action \in {"ExecuteSearch", "RequestMoreInfo"}

\* C30 witness: a query with only a location, on which the evaluator would
\* ask for confirmation, was validated first; the validator set guests to
\* 2 and the turn asks for more information.
C30_Witness ==
    /\ e_pc = "done"
    /\ v_in = LocationOnly
    /\ EvaluatorAction(message, v_in, history) = "RequestConfirmation"
    /\ params.guests = Some(2)
    /\ action = "RequestMoreInfo"

-----------------------------------------------------------------------------
(* Claims about the field matchers, checked under SpecMatch *)

\* C22: no field matcher raises, whatever the text: the price cascade of
\* extractors.py and the one of main.py return, also for a text whose only
\* price is a single number as in "under 200" or "budget of 100".
C22_NoMatcherRaises ==
    m_pc \in {"prices", "main_prices"} => ~m_out.raised

\* the gazetteer name is in the text as a whole word, whatever the case
WholeWordAt(name, text, i) ==
    /\ MatchAt(Lower(text), i, name)
    /\ ~IsWordChar(At(text, i - 1))
    /\ ~IsWordChar(At(text, i + Len(name)))
NamesIn(text) == {k \in DOMAIN known_locations : \E i \in 1..Len(text) : WholeWordAt(known_locations[k], text, i)}

StopListed(candidate) == \E k \in DOMAIN Split(Lower(candidate)) : Split(Lower(candidate))[k] \in non_locations
Discarded(candidate) ==
    \/ StopListed(candidate)
    \/ Len(candidate) < 3
    \/ AnyIn(Lower(candidate), filler_phrases)

\* C24: without a gazetteer name, a candidate of the contextual patterns is
\* discarded if one of its words is in the stoplist, if it is shorter than
\* 3 characters or if it contains a filler phrase: the location is the
\* first candidate that is not discarded, None if there is none, and it
\* never contains a stoplisted word.
C24_StoplistFilter ==
    (m_pc = "location" /\ ~m_out.known) =>
        /\ (\A k \in DOMAIN m_out.candidates : Discarded(m_out.candidates[k]))
              => m_out.location = None
        /\ m_out.location # None =>
              /\ ~StopListed(m_out.location[1])
              /\ \E k \in DOMAIN m_out.candidates :
                    /\ m_out.location[1] = Title(m_out.candidates[k])
                    /\ ~Discarded(m_out.candidates[k])
                    /\ \A j \in 1..(k - 1) : Discarded(m_out.candidates[j])

\* C24 witness: the only candidate of "stay in Good Place" is "Good Place",
\* whose words are both stoplisted, and the location is None.
C24_Witness ==
    /\ m_pc = "location"
    /\ ~m_out.known
    /\ m_out.candidates = <<<<"G","o","o","d"," ","P","l","a","c","e">>>>
    /\ StopListed(m_out.candidates[1])
    /\ m_out.location = None

\* C25: when extract_dates_from_text returns a pair of dates, check-out is
\* after check-in and check-in is not before the current day.
C25_CheckoutAfterCheckin ==
    (m_pc = "dates" /\ m_out.checkin # None) =>
        /\ DateLess(strptime(m_out.checkin[1])[1], strptime(m_out.checkout[1])[1])
        /\ ~DateLess(strptime(m_out.checkin[1])[1], m_today)

\* lines 314-319: the patterns of a maximum
MaxOnlyPatterns == 1..6

\* C26: when the first pattern of the cascade that matches is one of a
\* maximum, max_price is its number and min_price stays unset.
C26_MaxOnly ==
    (m_pc = "prices" /\ m_out.pattern \in MaxOnlyPatterns) =>
        /\ m_out.min_price = None
        /\ m_out.max_price = m_out.price

\* C27: a single price without a word of a maximum ("$N", "budget of N",
\* "budget around N") gives the band max(20, N - 50) to N + 50, and
\* "around 200" gives 150 to 250.
C27_BandOfFifty ==
    /\ (m_pc = "prices" /\ m_out.pattern \in {8, 10} /\ m_out.price # None) =>
          /\ m_out.min_price = Some(Max(20, m_out.price[1] - 50))
          /\ m_out.max_price = Some(m_out.price[1] + 50)
    /\ (m_pc = "prices" /\ m_text = <<"a","r","o","u","n","d"," ","2","0","0">>) =>
          /\ m_out.min_price = Some(150)
          /\ m_out.max_price = Some(250)

\* the cascade left at the first pattern after which both dates are set
RECURSIVE StopAtBoth(_, _, _, _)
StopAtBoth(patterns, text, current_year, dates) ==
    IF patterns = <<>> \/ BothDates(dates) THEN dates
    ELSE StopAtBoth(Tail(patterns), text, current_year,
                    DateMatches(patterns[1], text, ReFindIter(patterns[1].p, text, 1), current_year, dates))

\* C28: matching stops at the first pattern that sets both dates: the dates
\* the loops leave are the ones that pattern set, no later pattern has
\* overwritten either.
C28_FirstCompletePatternWins ==
    m_pc = "dates" =>
        LET first == StopAtBoth(date_patterns, m_text, m_today.year, NoDates)
        IN  /\ m_out.checkin_date = first.checkin_date
            /\ m_out.checkout_date = first.checkout_date
=============================================================================
